---- MODULE Spec2Model ----
(***************************************************************************)
(* A model of tsqn's update engine (src/src/transform.ts): updateImpl,     *)
(* undoImpl and transaction, over a heap of JavaScript objects, together   *)
(* with the predicate evaluator (src/src/predicate.ts) that WHERE uses.    *)
(*                                                                         *)
(* JavaScript objects are mutable and shared by reference: a ChangeRecord  *)
(* may hold a reference to an object that is also part of the data tree.   *)
(* The model therefore keeps every object in a heap (a sequence of objects *)
(* indexed by address) and represents a reference by its address.          *)
(***************************************************************************)
EXTENDS Integers, Sequences, FiniteSets, TLC

(***************************************************************************)
(* JavaScript values.  A value is a record [t, v]: t is the type tag and v *)
(* the payload (the number, 0/1 for a boolean, the heap address of an      *)
(* object).  A literal tree (an object or array literal written in a       *)
(* statement, or a deep snapshot of a heap object) has t = "obj".          *)
(***************************************************************************)
UNDEF == [t |-> "undef", v |-> 0]
NULL == [t |-> "null", v |-> 0]
Num(n) == [t |-> "num", v |-> n]
Bool(b) == [t |-> "bool", v |-> IF b THEN 1 ELSE 0]
Ref(a) == [t |-> "ref", v |-> a]
\* the strings of the model are "a", "ab" and "b": Str(i) is the i-th of them
\* in lexicographic order, StrChars[i] lists its characters (a = 1, b = 2)
Str(i) == [t |-> "str", v |-> i]
StrChars == <<<<1>>, <<1, 2>>, <<2>>>>

\* typeof x === "object" && x !== null, for a heap value
IsRef(x) == x.t = "ref"
\* the same test for a literal tree
IsTree(x) == x.t = "obj"
\* x == null (null or undefined)
IsNullish(x) == x.t \in {"undef", "null"}

\* JavaScript truthiness: if (x) ...
Truthy(x) ==
  CASE x.t = "undef" -> FALSE
    [] x.t = "null" -> FALSE
    [] x.t = "num" -> x.v # 0
    [] x.t = "bool" -> x.v = 1
    [] x.t = "str" -> StrChars[x.v] # <<>>
    [] OTHER -> TRUE

(***************************************************************************)
(* Property keys are strings.  The decimal strings the model uses are      *)
(* listed in two tables, so that String(n) and parseInt(key) are computed  *)
(* by lookup.  The model has four more spellings of an integer: "01" and   *)
(* "-0" are numerals that String never produces, "1.0" and "" are not      *)
(* numerals but Number() converts them to 1 and to 0.                      *)
(***************************************************************************)
NonNegKeys == <<"0", "1", "2", "3", "4">>
NegKeys == <<"-1", "-2", "-3", "-4", "-5">>
KeyInts == (0 - Len(NegKeys)) .. (Len(NonNegKeys) - 1)

\* String(n) for an integer n
String(n) == IF n >= 0 THEN NonNegKeys[n + 1] ELSE NegKeys[0 - n]

\* /^-?\d+$/.test(key)
IsNumericKey(key) ==
  (\E n \in KeyInts : String(n) = key) \/ key \in {"01", "-0"}

\* parseInt(key, 10) for a key that passes IsNumericKey (-0 is the integer 0)
parseInt(key) ==
  CASE key = "01" -> 1
    [] key = "-0" -> 0
    [] OTHER -> CHOOSE n \in KeyInts : String(n) = key

\* parseInt(key, 10) reads the numeral a key starts with and is NaN when the
\* key starts with none: the keys of the model that start with a numeral are
\* the numerals, "1.5" and "1.0"
StartsWithInt(key) == IsNumericKey(key) \/ key \in {"1.5", "1.0"}
LeadingInt(key) == IF key \in {"1.5", "1.0"} THEN 1 ELSE parseInt(key)

\* a canonical array index ("0", "1", ...): such keys come first, ascending,
\* in for-in order and determine the length of an array
IsArrayIndex(key) == \E n \in 0..(Len(NonNegKeys) - 1) : String(n) = key

(***************************************************************************)
(* Heap objects.  ks lists the own string keys in insertion order, p maps  *)
(* each of them to its value; arr/len make the object an array; hm says    *)
(* whether the object has a META property and m maps each key of that META *)
(* object to its recorded original, META = { [key]: { original } }.        *)
(***************************************************************************)
NoProps == [k \in {} |-> UNDEF]
NewObject == [arr |-> FALSE, len |-> 0, ks |-> <<>>, p |-> NoProps,
              hm |-> FALSE, m |-> NoProps]
NewArray == [NewObject EXCEPT !.arr = TRUE]

\* s[i] for a string s of the model, as a string of the model: "a" is
\* Str(1) and "b" is Str(3)
CharAt(x, i) == IF StrChars[x.v][i] = 1 THEN Str(1) ELSE Str(3)

\* x[key] for a value x that is not null or undefined: undefined when the
\* key is absent; a string has its characters at its indices, any other
\* primitive has none of the keys of the model
Get(h, x, key) ==
  IF IsRef(x)
  THEN IF key \in DOMAIN h[x.v].p THEN h[x.v].p[key] ELSE UNDEF
  ELSE IF x.t = "str" /\ IsArrayIndex(key)
          /\ parseInt(key) < Len(StrChars[x.v])
    THEN CharAt(x, parseInt(key) + 1)
  ELSE UNDEF

\* key in x
HasKey(h, x, key) == IsRef(x) /\ key \in DOMAIN h[x.v].p

\* o[key] = val on one object: a new key is appended to the insertion order,
\* and an array grows when the key is an index at or beyond its length
SetProp(o, key, val) ==
  [o EXCEPT !.ks = IF key \in DOMAIN o.p THEN @ ELSE Append(@, key),
            !.p = (key :> val) @@ @,
            !.len = IF o.arr /\ IsArrayIndex(key) /\ parseInt(key) >= @
                    THEN parseInt(key) + 1 ELSE @]

\* delete o[key]: the key disappears, an array keeps its length (a hole)
DeleteProp(o, key) ==
  [o EXCEPT !.ks = SelectSeq(@, LAMBDA x : x # key),
            !.p = [x \in (DOMAIN @) \ {key} |-> @[x]]]

Set(h, a, key, val) == [h EXCEPT ![a] = SetProp(@, key, val)]
Delete(h, a, key) == [h EXCEPT ![a] = DeleteProp(@, key)]

\* for (const key in o): array-index keys ascending, then the other keys in
\* insertion order
ForInKeys(ks) ==
  SelectSeq(NonNegKeys, LAMBDA k : \E i \in 1..Len(ks) : ks[i] = k)
    \o SelectSeq(ks, LAMBDA k : ~IsArrayIndex(k))

\* for (const key in x) for any value x: the keys of an object, the indices
\* of a string, no key for any other primitive, null and undefined
ForIn(h, x) ==
  IF IsRef(x) THEN ForInKeys(h[x.v].ks)
  ELSE IF x.t = "str" THEN SubSeq(NonNegKeys, 1, Len(StrChars[x.v]))
  ELSE <<>>

\* Array.isArray(x)
IsArray(h, x) == IsRef(x) /\ h[x.v].arr

\* x[key] = val in strict mode, the result being [h, err]: a TypeError when
\* x is not an object
Assign(h, x, key, val) ==
  IF IsRef(x) THEN [h |-> Set(h, x.v, key, val), err |-> ""]
  ELSE [h |-> h, err |-> "TypeError"]

\* delete x[key] in strict mode, the result being [h, err]: a primitive has
\* nothing to delete, but the index of a character of a string and any key
\* of null or undefined give a TypeError
Remove(h, x, key) ==
  IF IsRef(x) THEN [h |-> Delete(h, x.v, key), err |-> ""]
  ELSE IF IsNullish(x) \/ Get(h, x, key) # UNDEF
    THEN [h |-> h, err |-> "TypeError"]
  ELSE [h |-> h, err |-> ""]

(***************************************************************************)
(* Literal trees: [t |-> "obj", arr, len, ks, p] with p mapping keys to    *)
(* scalars or literal trees.                                               *)
(***************************************************************************)
RECURSIVE PairsToFn(_)
PairsToFn(pairs) ==
  IF pairs = <<>> THEN NoProps
  ELSE (pairs[Len(pairs)][1] :> pairs[Len(pairs)][2])
         @@ PairsToFn(SubSeq(pairs, 1, Len(pairs) - 1))

\* { k1: v1, k2: v2 } from <<<<k1, v1>>, <<k2, v2>>>>
Obj(pairs) ==
  [t |-> "obj", arr |-> FALSE, len |-> 0,
   ks |-> [i \in 1..Len(pairs) |-> pairs[i][1]], p |-> PairsToFn(pairs)]

\* [e1, e2] from <<e1, e2>>
Arr(elems) ==
  [t |-> "obj", arr |-> TRUE, len |-> Len(elems),
   ks |-> [i \in 1..Len(elems) |-> String(i - 1)],
   p |-> [k \in {String(i - 1) : i \in 1..Len(elems)} |->
            elems[parseInt(k) + 1]]]

\* structuredClone(tree): a fresh heap object per literal object; the result
\* is [h |-> the heap after allocation, v |-> the value]
RECURSIVE Clone(_, _), CloneProps(_, _, _, _)
CloneProps(h, tree, i, o) ==
  IF i > Len(tree.ks) THEN [h |-> Append(h, o), v |-> Ref(Len(h) + 1)]
  ELSE LET c == Clone(h, tree.p[tree.ks[i]])
       IN CloneProps(c.h, tree, i + 1,
                     [o EXCEPT !.ks = Append(@, tree.ks[i]),
                               !.p = (tree.ks[i] :> c.v) @@ @])
Clone(h, tree) ==
  IF ~IsTree(tree) THEN [h |-> h, v |-> tree]
  ELSE CloneProps(h, tree, 1,
                  [NewObject EXCEPT !.arr = tree.arr, !.len = tree.len])

\* a deep snapshot of a heap value, used to compare and to evaluate
\* predicates; key order is dropped, META and its originals are kept
RECURSIVE Snap(_, _)
Snap(h, x) ==
  IF ~IsRef(x) THEN x
  ELSE LET o == h[x.v]
       IN [t |-> "obj", arr |-> o.arr, len |-> o.len,
           p |-> [k \in DOMAIN o.p |-> Snap(h, o.p[k])],
           hm |-> o.hm,
           m |-> [k \in DOMAIN o.m |-> Snap(h, o.m[k])]]

(***************************************************************************)
(* The predicate evaluator (src/src/predicate.ts).  A predicate is a       *)
(* scalar (a literal), [t |-> "por", e |-> <<p1, ..>>] (an array: OR) or   *)
(* [t |-> "pand", ops, f] (a record: ops maps the operator symbols it      *)
(* carries to their operands, f maps its string keys to sub-predicates).   *)
(* Values are scalars or snapshots.  The operands of the comparison        *)
(* operators are scalars.                                                  *)
(***************************************************************************)
POr(elems) == [t |-> "por", e |-> elems]
PAnd(ops, f) == [t |-> "pand", ops |-> ops, f |-> f]
IsPAnd(pred) == pred.t = "pand"
IsScalar(x) == x.t \in {"undef", "null", "num", "bool", "str"}

\* a === b: scalars of the same type and payload; an object of the data is
\* never the same object as one written in a predicate
StrictEq(a, b) == IsScalar(a) /\ IsScalar(b) /\ a = b

\* ToNumber of a scalar: NaN for undefined and for the strings of the
\* model, which are not numerals; otherwise null is 0 and true is 1
IsNaN(x) == x.t \in {"undef", "str"}
ToNum(x) == IF x.t \in {"num", "bool"} THEN x.v ELSE 0

\* a == b (coercing): null and undefined equal each other and nothing else;
\* a boolean is compared as a number
LooseEq(a, b) ==
  CASE IsNullish(a) \/ IsNullish(b) -> IsNullish(a) /\ IsNullish(b)
    [] a.t = "str" /\ b.t = "str" -> a.v = b.v
    [] IsScalar(a) /\ IsScalar(b) ->
         ~IsNaN(a) /\ ~IsNaN(b) /\ ToNum(a) = ToNum(b)
    [] OTHER -> FALSE

\* a < b and a <= b: two strings compare lexicographically, otherwise both
\* sides are converted to numbers and NaN compares false
Less(a, b) ==
  IF a.t = "str" /\ b.t = "str" THEN a.v < b.v
  ELSE /\ IsScalar(a) /\ IsScalar(b) /\ ~IsNaN(a) /\ ~IsNaN(b)
       /\ ToNum(a) < ToNum(b)
LessEq(a, b) ==
  IF a.t = "str" /\ b.t = "str" THEN a.v <= b.v
  ELSE /\ IsScalar(a) /\ IsScalar(b) /\ ~IsNaN(a) /\ ~IsNaN(b)
       /\ ToNum(a) <= ToNum(b)

\* new RegExp(pattern).test(value) for a string value: a pattern that is
\* one of the strings of the model matches when it occurs in the value,
\* undefined gives the empty pattern, which matches every string, and null,
\* a number or a boolean gives its name, which no string of the model holds
RegExpTest(pattern, value) ==
  \/ pattern = UNDEF
  \/ /\ pattern.t = "str"
     /\ \E i \in 0..(Len(StrChars[value.v]) - Len(StrChars[pattern.v])) :
          SubSeq(StrChars[value.v], i + 1, i + Len(StrChars[pattern.v]))
            = StrChars[pattern.v]

\* the predicate without one of its operator entries
WithoutOp(pred, op) ==
  [pred EXCEPT !.ops = [o \in (DOMAIN @) \ {op} |-> @[o]]]

\* evalTerminal: a primitive value against a record predicate; the first
\* operator found, in the order of the source, decides
evalTerminal(value, pred) ==
  LET ops == pred.ops
      has(op) == op \in DOMAIN ops
  IN CASE has("EQ") -> LooseEq(value, ops["EQ"])
       [] has("NEQ") -> ~LooseEq(value, ops["NEQ"])
       [] has("NOT") -> ~StrictEq(value, ops["NOT"])
       [] value.t \in {"num", "str"} /\ has("LT") -> Less(value, ops["LT"])
       [] value.t \in {"num", "str"} /\ has("GT") -> Less(ops["GT"], value)
       [] value.t \in {"num", "str"} /\ has("LTE") -> LessEq(value, ops["LTE"])
       [] value.t \in {"num", "str"} /\ has("GTE") -> LessEq(ops["GTE"], value)
       [] value.t = "str" /\ has("MATCH") -> RegExpTest(ops["MATCH"], value)
       [] OTHER -> FALSE

RECURSIVE evalPredicate(_, _)

\* evalArray: ALL and SOME range over the elements that exist (every/some
\* skip holes); a key is read with parseInt(key, 10) and ignored when that
\* is NaN or outside the array
evalArray(arr, pred) ==
  LET ops == pred.ops
      present == {k \in DOMAIN arr.p : IsArrayIndex(k) /\ parseInt(k) < arr.len}
      at(k) == IF k \in DOMAIN arr.p THEN arr.p[k] ELSE UNDEF
  IN /\ ("ALL" \in DOMAIN ops /\ ops["ALL"] # UNDEF)
          => \A k \in present : evalPredicate(arr.p[k], ops["ALL"])
     /\ ("SOME" \in DOMAIN ops /\ ops["SOME"] # UNDEF)
          => \E k \in present : evalPredicate(arr.p[k], ops["SOME"])
     /\ \A key \in DOMAIN pred.f :
          (StartsWithInt(key) /\ LeadingInt(key) >= 0
             /\ LeadingInt(key) < arr.len)
            => evalPredicate(at(String(LeadingInt(key))), pred.f[key])

\* evalObject where a key the object lacks fails the predicate
evalObjectMissingFails(obj, pred) ==
  LET ops == pred.ops
  IN /\ ("ALL" \in DOMAIN ops /\ ops["ALL"] # UNDEF)
          => \A k \in DOMAIN obj.p : evalPredicate(obj.p[k], ops["ALL"])
     /\ ("SOME" \in DOMAIN ops /\ ops["SOME"] # UNDEF)
          => \E k \in DOMAIN obj.p : evalPredicate(obj.p[k], ops["SOME"])
     /\ \A key \in DOMAIN pred.f :
          /\ key \in DOMAIN obj.p
          /\ evalPredicate(obj.p[key], pred.f[key])

\* evalObject: a key the object lacks is tested as undefined
evalObject(obj, pred) ==
  LET ops == pred.ops
  IN /\ ("ALL" \in DOMAIN ops /\ ops["ALL"] # UNDEF)
          => \A k \in DOMAIN obj.p : evalPredicate(obj.p[k], ops["ALL"])
     /\ ("SOME" \in DOMAIN ops /\ ops["SOME"] # UNDEF)
          => \E k \in DOMAIN obj.p : evalPredicate(obj.p[k], ops["SOME"])
     /\ \A key \in DOMAIN pred.f :
          IF key \in DOMAIN obj.p
          THEN evalPredicate(obj.p[key], pred.f[key])
          ELSE evalPredicate(UNDEF, pred.f[key])

evalPredicate(value, pred) ==
  IF IsNullish(value)
  THEN CASE pred = value -> TRUE
         [] IsPAnd(pred) /\ "EQ" \in DOMAIN pred.ops -> LooseEq(pred.ops["EQ"], value)
         [] IsPAnd(pred) /\ "NEQ" \in DOMAIN pred.ops -> ~LooseEq(pred.ops["NEQ"], value)
         [] IsPAnd(pred) /\ "NOT" \in DOMAIN pred.ops -> ~StrictEq(pred.ops["NOT"], value)
         [] OTHER -> FALSE
  ELSE CASE pred.t = "por" -> \E i \in 1..Len(pred.e) : evalPredicate(value, pred.e[i])
         [] IsPAnd(pred) ->
              IF DOMAIN pred.ops = {} /\ DOMAIN pred.f = {} THEN TRUE
              ELSE IF ~IsTree(value) THEN evalTerminal(value, pred)
              ELSE IF "NOT" \in DOMAIN pred.ops
                THEN IF ~evalPredicate(value, pred.ops["NOT"])
                     THEN LET rest == WithoutOp(pred, "NOT")
                          IN IF DOMAIN rest.ops = {} /\ DOMAIN rest.f = {} THEN TRUE
                             ELSE evalPredicate(value, rest)
                     ELSE FALSE
              ELSE IF value.arr THEN evalArray(value, pred)
              ELSE evalObject(value, pred)
         [] OTHER -> StrictEq(value, pred)

(***************************************************************************)
(* Update statements.  An operand is a scalar literal (Lit), a one-element *)
(* array [v] (Repl: replace), an empty array [] (Del: delete), an array of *)
(* two or more elements (Multi), a transform function (Fn) or a record     *)
(* statement (Rec): f lists its field directives in the order they are     *)
(* written, all/where/def/vars are its ALL, WHERE, DEFAULT and CONTEXT     *)
(* entries (undefined when the entry is not there).                        *)
(***************************************************************************)
Lit(v) == [k |-> "lit", v |-> v]
Absent == Lit(UNDEF)
Repl(v) == [k |-> "repl", v |-> v]
Del == [k |-> "del", v |-> UNDEF]
\* an array of two or more elements, and the operand [1, 2]
MultiOf(elems) == [k |-> "multi", v |-> UNDEF, e |-> elems]
Multi == MultiOf(<<Num(1), Num(2)>>)
Fn(id) == [k |-> "fn", v |-> UNDEF, id |-> id]
WhereFn(id) == [t |-> "fn", v |-> 0, id |-> id]
NoCtx == [has |-> FALSE, m |-> NoProps]
Ctx(m) == [has |-> TRUE, m |-> m]
Rec(fields, all, where, def, vars) ==
  [k |-> "rec", v |-> UNDEF, f |-> fields, all |-> all, where |-> where,
   def |-> def, vars |-> vars]
Fld(key, op) == [key |-> key, op |-> op]
\* a record statement that has field directives only
Fields(fields) == Rec(fields, Absent, UNDEF, UNDEF, NoCtx)

\* a value written in a statement, read as an operand: a scalar, an array
\* by its length, a record as a statement of field directives
RECURSIVE AsOperand(_)
AsOperand(v) ==
  IF ~IsTree(v) THEN Lit(v)
  ELSE IF ~v.arr
    THEN Fields([i \in 1..Len(v.ks) |->
                   Fld(v.ks[i], AsOperand(v.p[v.ks[i]]))])
  ELSE CASE v.len = 0 -> Del
         [] v.len = 1 -> Repl(v.p["0"])
         [] OTHER -> MultiOf([i \in 1..v.len |-> v.p[String(i - 1)]])

\* const { [WHERE]: where, [ALL]: all, [DEFAULT]: defaulT, [CONTEXT]: vars,
\*         ...rest } = statement
\* for a statement that is not a record: an array has its elements under
\* its indices, a string its characters, and a number, a boolean or a
\* function has no own enumerable key
Destructured(statement) ==
  CASE statement.k = "rec" -> statement
    [] statement.k = "repl" -> Fields(<<Fld("0", AsOperand(statement.v))>>)
    [] statement.k = "multi" ->
         Fields([i \in 1..Len(statement.e) |->
                   Fld(String(i - 1), AsOperand(statement.e[i]))])
    [] statement.k = "lit" /\ statement.v.t = "str" ->
         Fields([i \in 1..Len(StrChars[statement.v.v]) |->
                   Fld(String(i - 1), Lit(CharAt(statement.v, i)))])
    [] OTHER -> Fields(<<>>)

\* if (statement) ...: every array, function and record is truthy
TruthyStmt(s) == s.k # "lit" \/ Truthy(s.v)

\* staticUpdate[key]
HasField(fields, key) == \E i \in 1..Len(fields) : fields[i].key = key
Field(fields, key) ==
  IF HasField(fields, key)
  THEN fields[CHOOSE i \in 1..Len(fields) : fields[i].key = key].op
  ELSE Absent

\* staticUpdate[key] = all: an existing key keeps its place
PutField(fields, key, op) ==
  IF HasField(fields, key)
  THEN [i \in 1..Len(fields) |->
          IF fields[i].key = key THEN Fld(key, op) ELSE fields[i]]
  ELSE Append(fields, Fld(key, op))

\* if (all) for (const key in data)
\*   if (staticUpdate[key] === undefined) staticUpdate[key] = all
RECURSIVE ExpandAll(_, _, _, _)
ExpandAll(fields, all, dataKeys, i) ==
  IF ~TruthyStmt(all) \/ i > Len(dataKeys) THEN fields
  ELSE ExpandAll(IF Field(fields, dataKeys[i]) = Absent
                 THEN PutField(fields, dataKeys[i], all) ELSE fields,
                 all, dataKeys, i + 1)

\* context = context ? { ...context, ...vars } : vars
MergeContext(context, vars) ==
  IF ~vars.has THEN context
  ELSE IF context.has THEN Ctx(vars.m @@ context.m) ELSE vars

\* the numbers written in data and statements are 0..MaxNum
MaxNum == 2

\* the context variable a function of the model reads
CtxKey(id) == IF id = "ctxN" THEN "n" ELSE "m"

\* the transform functions the statements of the model use:
\*   ctxM     (current, item, key, ctx) => ctx.m
\*   ctxN     (current, item, key, ctx) => ctx.n
\* the result is [op |-> the operand returned, err |-> "" or the error]
ApplyFn(id, oldValue, key, context) ==
  IF ~context.has THEN [op |-> Absent, err |-> "TypeError"]
  ELSE [op |-> Lit(IF CtxKey(id) \in DOMAIN context.m
                   THEN context.m[CtxKey(id)] ELSE UNDEF),
        err |-> ""]

\* the WHERE functions the statements of the model use:
\*   isNullish   (value) => value == null
\*   ctxMIsMax   (value, ctx) => !!ctx && ctx.m === MaxNum
\*   never       () => false
ApplyWhereFn(id, value, context) ==
  CASE id = "ctxMIsMax" ->
         /\ context.has /\ "m" \in DOMAIN context.m
         /\ context.m["m"] = Num(MaxNum)
    [] id = "never" -> FALSE
    [] OTHER -> IsNullish(value)

\* typeof where === 'function' ? where(data, context) : evalPredicate(data, where)
EvalWhere(h, value, where, context) ==
  IF where.t = "fn" THEN ApplyWhereFn(where.id, Snap(h, value), context)
  ELSE evalPredicate(Snap(h, value), where)

(***************************************************************************)
(* undoImpl (src/src/transform.ts).  The result is [h, err].               *)
(***************************************************************************)
RECURSIVE undoImpl(_, _, _), undoKeys(_, _, _, _, _)

\* the next key of the loop, after the recursive call for a key returned r
undoNext(r, data, rest, keys, i) ==
  IF r.err # "" THEN r ELSE undoKeys(r.h, data, rest, keys, i + 1)

\* for (const key in rest): rest is a copy of result's own keys made on
\* entry, meta is result[META]
undoKeys(h, data, rest, keys, i) ==
  IF i > Len(keys) THEN [h |-> h, err |-> ""]
  ELSE LET key == keys[i]
       IN IF rest.hm /\ key \in DOMAIN rest.m
          THEN undoKeys(Set(h, data.v, key, rest.m[key]), data, rest, keys, i + 1)
          ELSE undoNext(undoImpl(h, Get(h, data, key), rest.p[key]),
                        data, rest, keys, i)

undoImpl(h, data, result) ==
  IF ~IsRef(data) \/ result = UNDEF THEN [h |-> h, err |-> ""]
  ELSE IF result = NULL THEN [h |-> h, err |-> "TypeError"]
  ELSE IF ~IsRef(result) THEN [h |-> h, err |-> ""]
  ELSE undoKeys(h, data, h[result.v], ForInKeys(h[result.v].ks), 1)

(***************************************************************************)
(* updateImpl (src/src/transform.ts).  Each operator takes the heap and    *)
(* the closure variables data, changes and context, and returns            *)
(* [h |-> the heap, ch |-> changes, err |-> "" or the error thrown].       *)
(***************************************************************************)
RECURSIVE updateImpl(_, _, _, _, _), updateKey(_, _, _, _, _, _, _, _),
          updateLoop(_, _, _, _, _, _, _)

\* the META part of addValueChange, on the ChangeRecord o:
\*   const meta = changes[META];
\*   if (meta) { if (!meta[key]) meta[key] = { original: oldValue } }
\*   else changes[META] = { [key]: { original: oldValue } }
RecordOriginal(o, key, oldValue) ==
  IF o.hm
  THEN IF key \in DOMAIN o.m THEN o
       ELSE [o EXCEPT !.m = (key :> oldValue) @@ @]
  ELSE [o EXCEPT !.hm = TRUE, !.m = (key :> oldValue)]

\* the second half of addValueChange, u being what the undo of the earlier
\* changes to oldValue returned:
\*   if (!changes) changes = {}
\*   changes[key] = newValue; ... META ...
recordChange(u, data, changes, key, oldValue, newValue) ==
  LET c == IF ~Truthy(changes)
           THEN [h |-> Append(u.h, NewObject), v |-> Ref(Len(u.h) + 1)]
           ELSE [h |-> u.h, v |-> changes]
      withMeta == RecordOriginal(SetProp(c.h[c.v.v], key, newValue), key,
                                 oldValue)
  IN IF u.err # "" THEN [h |-> u.h, ch |-> changes, err |-> u.err]
     ELSE IF Truthy(changes) /\ ~IsRef(changes)
       THEN [h |-> u.h, ch |-> changes, err |-> "TypeError"]
     ELSE [h |-> [c.h EXCEPT ![c.v.v] = withMeta], ch |-> c.v, err |-> ""]

addValueChange(h, data, changes, key, oldValue) ==
  recordChange(IF IsRef(oldValue) /\ Truthy(Get(h, changes, key))
               THEN undoImpl(h, oldValue, Get(h, changes, key))
               ELSE [h |-> h, err |-> ""],
               data, changes, key, oldValue, Get(h, data, key))

\* const defaultValue = newValue[DEFAULT]
DefaultOf(newValue) == newValue.def

\* addValueChange(key, oldValue) after the write to data[key] gave w: an
\* error thrown by the write ends the call
recordWrite(w, data, changes, key, oldValue) ==
  IF w.err # "" THEN [h |-> w.h, ch |-> changes, err |-> w.err]
  ELSE addValueChange(w.h, data, changes, key, oldValue)

\* addValueChange(key, oldValue) after updateImpl(data[key], newValue,
\* undefined, context) returned r
recordDefault(r, data, changes, key, oldValue) ==
  IF r.err # "" THEN [h |-> r.h, ch |-> changes, err |-> r.err]
  ELSE addValueChange(r.h, data, changes, key, oldValue)

\* updateImpl(data[key], newValue, undefined, context) after the write
\* data[key] = v gave w
updateDefault(w, v, data, changes, context, key, oldValue, newValue) ==
  IF w.err # "" THEN [h |-> w.h, ch |-> changes, err |-> w.err]
  ELSE recordDefault(updateImpl(w.h, v, newValue, UNDEF, context),
                     data, changes, key, oldValue)

\* data[key] = structuredClone(defaultValue), c being the clone
assignDefault(c, data, changes, context, key, oldValue, newValue) ==
  updateDefault(Assign(c.h, data, key, c.v), c.v, data, changes, context, key,
                oldValue, newValue)

\* r is what updateImpl(oldValue, newValue, changes?.[key], context)
\* returned:
\*   if (change) { if (changes) changes[key] = change
\*                 else changes = { [key]: change } }
recordNestedDropped(r, changes, key) ==
  [h |-> r.h, ch |-> changes, err |-> r.err]

recordNested(r, changes, key) ==
  IF r.err # "" THEN [h |-> r.h, ch |-> changes, err |-> r.err]
  ELSE IF ~Truthy(r.ch) THEN [h |-> r.h, ch |-> changes, err |-> ""]
  ELSE IF IsRef(changes)
    THEN [h |-> Set(r.h, changes.v, key, r.ch), ch |-> changes, err |-> ""]
  ELSE IF Truthy(changes)
    THEN [h |-> r.h, ch |-> changes, err |-> "TypeError"]
  ELSE [h |-> Append(r.h, SetProp(NewObject, key, r.ch)),
        ch |-> Ref(Len(r.h) + 1), err |-> ""]

\* newValue is the operand (Lit or Rec) or, when replace is set, the value
\* to assign wrapped as [k |-> "val", v |-> value]
updateKey(h, data, changes, context, key, oldValue, newValue, replace) ==
  IF newValue.k # "rec" /\ oldValue = newValue.v
  THEN [h |-> h, ch |-> changes, err |-> ""]
  ELSE IF ~replace /\ newValue.k = "rec"
  THEN IF ~IsRef(oldValue)
       THEN IF Truthy(newValue.where)
               /\ ~EvalWhere(h, oldValue, newValue.where, context)
            THEN [h |-> h, ch |-> changes, err |-> ""]
            ELSE IF Truthy(DefaultOf(newValue))
            THEN assignDefault(Clone(h, DefaultOf(newValue)), data, changes,
                               context, key, oldValue, newValue)
            ELSE [h |-> h, ch |-> changes,
                  err |-> "Can't partially update a non-object"]
       ELSE recordNested(updateImpl(h, oldValue, newValue,
                                    IF Truthy(changes) THEN Get(h, changes, key)
                                    ELSE UNDEF, context),
                         changes, key)
  ELSE recordWrite(Assign(h, data, key, newValue.v), data, changes, key,
                   oldValue)

\* the key of data a field directive addresses: on an array a negative
\* index counts from the end,
\*   actualKey = index < 0 ? String(data.length + index) : key
ActualKeyAsWritten(o, key) == key

ActualKey(o, key) ==
  IF o.arr /\ IsNumericKey(key) /\ parseInt(key) < 0
  THEN String(o.len + parseInt(key)) ELSE key

\* updateKey(actualKey, oldValue, newValue, true), c being the clone
\* structuredClone(staticOperand[0])
replaceKey(c, data, changes, context, actualKey, oldValue) ==
  updateKey(c.h, data, changes, context, actualKey, oldValue,
            [k |-> "val", v |-> c.v], TRUE)

\* the body of the loop for a key that is not skipped: applied is the
\* operand, after the call of an operand that is a function
applyOperand(h, data, changes, context, actualKey, oldValue, applied) ==
  CASE applied.err # "" ->
         [h |-> h, ch |-> changes, err |-> applied.err]
    [] applied.op.k = "del" ->
         recordWrite(Remove(h, data, actualKey), data, changes, actualKey,
                     oldValue)
    [] applied.op.k = "repl" ->
         replaceKey(Clone(h, applied.op.v), data, changes, context, actualKey,
                    oldValue)
    [] applied.op.k = "multi" ->
         [h |-> h, ch |-> changes,
          err |-> "Multiple element arrays not allowed"]
    [] OTHER ->
         updateKey(h, data, changes, context, actualKey, oldValue,
                   applied.op, FALSE)

\* the next key of the loop, after the body for a key returned r: an error
\* thrown ends the loop
loopNext(r, data, context, staticUpdate, keys, i) ==
  IF r.err # "" THEN r
  ELSE updateLoop(r.h, data, r.ch, context, staticUpdate, keys, i + 1)

\* ALL.toString(), the one key that is not numeric and is not skipped on an
\* array
ALLString == "Symbol(*)"

\* for (const key in staticUpdate)
updateLoop(h, data, changes, context, staticUpdate, keys, i) ==
  IF i > Len(keys) THEN [h |-> h, ch |-> changes, err |-> ""]
  ELSE
    LET key == keys[i]
        actualKey == IF IsArray(h, data) THEN ActualKey(h[data.v], key)
                     ELSE key
        oldValue == Get(h, data, actualKey)
        operand == Field(staticUpdate, key)
    IN IF IsArray(h, data) /\ ~IsNumericKey(key) /\ key # ALLString
       THEN updateLoop(h, data, changes, context, staticUpdate, keys, i + 1)
       ELSE loopNext(applyOperand(h, data, changes, context, actualKey,
                                  oldValue,
                                  IF operand.k = "fn"
                                  THEN ApplyFn(operand.id, oldValue, actualKey,
                                               context)
                                  ELSE [op |-> operand, err |-> ""]),
                     data, context, staticUpdate, keys, i)

updateRecord(h, data, statement, changes, context) ==
  LET ctx == MergeContext(context, statement.vars)
      staticUpdate == ExpandAll(statement.f, statement.all, ForIn(h, data), 1)
      keys == ForInKeys([i \in 1..Len(staticUpdate) |-> staticUpdate[i].key])
  IN IF Truthy(statement.where) /\ ~EvalWhere(h, data, statement.where, ctx)
     THEN [h |-> h, ch |-> changes, err |-> ""]
     ELSE updateLoop(h, data, changes, ctx, staticUpdate, keys, 1)

updateImpl(h, data, statement, changes, context) ==
  IF ~TruthyStmt(statement) THEN [h |-> h, ch |-> UNDEF, err |-> ""]
  ELSE updateRecord(h, data, Destructured(statement), changes, context)

\* update(d, u, c) and undo(data, result), the exported entry points
update(h, d, u, c) == updateImpl(h, d, u, c, NoCtx)
undo(h, data, result) == undoImpl(h, data, result)

(***************************************************************************)
(* The inputs: initial data trees and update statements.                   *)
(***************************************************************************)
Nums == {Num(n) : n \in 0..MaxNum}

XY(x, y) == Obj(<<<<"x", x>>, <<"y", y>>>>)
X(x) == Obj(<<<<"x", x>>>>)

\* { a: 1, b: { x: 1, y: 2 }, c: null }
DataRecord == Obj(<<<<"a", Num(1)>>, <<"b", XY(Num(1), Num(2))>>, <<"c", NULL>>>>)
\* [1, 2]
DataNumbers == Arr(<<Num(1), Num(2)>>)
\* [{ x: 1, y: 1 }, { x: 2, y: 2 }]
DataObjects == Arr(<<XY(Num(1), Num(1)), XY(Num(2), Num(2))>>)
\* { a: [1, 2], b: { x: { x: 1 } } }
DataNested == Obj(<<<<"a", Arr(<<Num(1), Num(2)>>)>>, <<"b", X(X(Num(1)))>>>>)
InitData == {DataRecord, DataNumbers, DataObjects, DataNested}

RecordKeys == {"a", "b", "c", "d"}
IndexKeys == {"0", "1", "2", "-1", "-2", "-3", "foo", ALLString}
TopKeys == RecordKeys \cup IndexKeys

\* predicates used as WHERE
XIs(n) == PAnd(NoProps, "x" :> Num(n))
Preds == {XIs(1), XIs(2), PAnd("EQ" :> NULL, NoProps), PAnd("NEQ" :> NULL, NoProps),
          PAnd("GT" :> Num(1), NoProps), PAnd(NoProps, "a" :> Num(1)),
          WhereFn("isNullish")}

ScalarOps == {Lit(v) : v \in Nums \cup {NULL, UNDEF, Str(2)}}
ReplaceOps == {Repl(Num(1)), Repl(XY(Num(1), Num(2))), Repl(X(Num(MaxNum)))}
\* nested record operands: one field directive, with or without DEFAULT,
\* ALL and WHERE
InnerOps == {Lit(Num(1)), Lit(Num(MaxNum)), Del, Multi}
InnerRecs ==
  {Rec(<<Fld(k, o)>>, Absent, UNDEF, d, NoCtx) :
     k \in {"x", "z", "-1"}, o \in InnerOps,
     d \in {UNDEF, XY(Num(0), Num(0)), Arr(<<Num(0)>>), Num(1)}}
  \cup {Rec(<<Fld("y", Lit(n))>>, a, w, d, NoCtx) :
     n \in Nums, a \in {Absent, Lit(Num(MaxNum))}, w \in {UNDEF, XIs(1), WhereFn("isNullish")},
     d \in {UNDEF, XY(Num(0), Num(0))}}
  \cup {Fields(<<Fld("x", Fields(<<Fld("x", Lit(n))>>))>>) : n \in Nums}
TopOps == ScalarOps \cup {Del, Multi} \cup ReplaceOps \cup InnerRecs

SmallOps == {Lit(Num(MaxNum)), Del, Multi, Repl(X(Num(MaxNum))),
             Fields(<<Fld("x", Lit(Num(MaxNum)))>>), Fields(<<Fld("y", Lit(Num(0)))>>)}
KeyPairs == {<<"a", "b">>, <<"b", "c">>, <<"c", "a">>, <<"0", "-1">>, <<"-1", "0">>,
             <<"1", "-1">>, <<"-1", "1">>, <<"-1", "-2">>, <<"0", "1">>, <<"-3", "0">>}
AllOps == {Lit(Num(0)), Lit(Num(MaxNum)), Lit(NULL), Del,
           Fields(<<Fld("x", Lit(Num(MaxNum)))>>)}

OneField == {Fields(<<Fld(k, o)>>) : k \in TopKeys, o \in TopOps}
TwoFields == {Fields(<<Fld(kk[1], o1), Fld(kk[2], o2)>>) :
                kk \in KeyPairs, o1 \in SmallOps, o2 \in SmallOps}
WithAll ==
  {Rec(<<>>, a, UNDEF, UNDEF, NoCtx) : a \in AllOps}
  \cup {Rec(<<Fld(k, o)>>, a, UNDEF, UNDEF, NoCtx) :
          k \in {"a", "b", "0", "-1", "-2"}, o \in SmallOps \cup {Absent}, a \in AllOps}
WithWhere ==
  {Rec(<<Fld(k, Lit(Num(MaxNum)))>>, Absent, w, UNDEF, NoCtx) :
     k \in {"a", "0"}, w \in Preds \cup {Num(0)}}
WithContext ==
  {Rec(<<Fld(k, Fn("ctxM"))>>, Absent, UNDEF, UNDEF, c) :
     k \in {"a", "0"}, c \in {NoCtx, Ctx("m" :> Num(MaxNum))}}
\* CONTEXT at the root and at a nested level, functions reading it at both
\* levels, the nested level written before or after its sibling
CtxFns == {Fn("ctxM"), Fn("ctxN")}
NestedLevels ==
  {Fld("b", Rec(<<Fld("x", o)>>, Absent, w, UNDEF, c)) :
     o \in CtxFns \cup {Fields(<<Fld("x", g)>>) : g \in CtxFns},
     w \in {UNDEF, WhereFn("ctxMIsMax")},
     c \in {NoCtx, Ctx("m" :> Num(MaxNum)), Ctx("m" :> Num(0)), Ctx("n" :> Num(0))}}
  \cup {Fld("c", Rec(<<Fld("y", g)>>, Absent, w, XY(Num(0), Num(0)), c)) :
     g \in CtxFns,
     w \in {UNDEF, WhereFn("ctxMIsMax")},
     c \in {NoCtx, Ctx("m" :> Num(MaxNum)), Ctx("n" :> Num(0))}}
NestedContext ==
  {Rec(IF first THEN <<Fld("a", f), nested>> ELSE <<nested, Fld("a", f)>>,
       Absent, UNDEF, UNDEF, c) :
     first \in BOOLEAN, f \in CtxFns, nested \in NestedLevels,
     c \in {Ctx("m" :> Num(1) @@ "n" :> Num(1)), Ctx("m" :> Num(MaxNum))}}
\* statements that are not records: [1], [{ x: 1 }], [1, 2], [], 1, "ab"
NotRecords ==
  {Repl(Num(1)), Repl(X(Num(1))), Multi, Del, Lit(Num(1)), Lit(Str(2))}
Statements ==
  OneField \cup TwoFields \cup WithAll \cup WithWhere \cup WithContext
    \cup NestedContext \cup NotRecords \cup {Absent}

(***************************************************************************)
(* The state: the heap, the data tree the caller holds, and the record of  *)
(* the last call.                                                          *)
(***************************************************************************)
VARIABLES
  d0,       \* the data tree as first given (a literal)
  heap,     \* the objects, by address
  data,     \* the caller's data tree (a reference)
  changes,  \* the ChangeRecord returned by update / held by the transaction
  phase,    \* "ready", "updated", "undone", "detected", "failed"
  err,      \* the error the last call threw, "" when it returned
  stmt,     \* the statement of the last update call
  pre,      \* the data tree just before the last update call (a snapshot)
  nupd,     \* transaction: the number of update calls made
  last,     \* transaction: the last operation called
  ret,      \* transaction: what the last commit() returned
  base,     \* transaction: the data tree when the running accumulation began,
            \* at creation or at the most recent commit/revert (a snapshot)
  closed,   \* transaction: base of the accumulation the last commit/revert closed
  recBase,  \* transaction: the data tree when the running ChangeRecord was
            \* started, that is when changes was last undefined (a snapshot)
  subject,    \* evalPredicate: the value argument
  predicate,  \* evalPredicate: the predicate argument
  evaluated,  \* evalPredicate: the call has returned
  verdict,    \* evalPredicate: what the call returned
  source,     \* select: the data argument (a literal tree or a scalar)
  selection,  \* select: the stmt argument
  selected,   \* select: the call has returned
  result,     \* select: what the call returned
  reselected, \* select: the result was selected from again, by the same stmt
  reresult,   \* select: what that second call returned
  original,   \* toJSON: the statement argument
  json,       \* toJSON: what the call returned
  restored,   \* fromJSON: what the call on json returned
  jphase,     \* "none", "new", "serialized" or "restored"
  detector,   \* hasChanges: the detector argument
  detected    \* hasChanges: "none" before the call, then "true", "false" or
              \* the name of the error it raised
vars == <<d0, heap, data, changes, phase, err, stmt, pre, nupd, last, ret, base,
          closed, recBase, subject, predicate, evaluated, verdict,
          source, selection, selected, result, reselected, reresult,
          original, json, restored, jphase, detector, detected>>
txvars == <<nupd, last, ret, base, closed, recBase>>
predvars == <<subject, predicate, evaluated, verdict>>
selvars == <<source, selection, selected, result, reselected, reresult>>
jsonvars == <<original, json, restored, jphase>>
detvars == <<detector, detected>>
updvars == <<d0, heap, data, changes, phase, err, stmt, pre>>

\* no evalPredicate call is under way
PredIdle ==
  subject = UNDEF /\ predicate = UNDEF /\ evaluated = FALSE /\ verdict = FALSE

\* no select call is under way
SelIdle ==
  /\ source = UNDEF /\ selection = UNDEF /\ selected = FALSE /\ result = UNDEF
  /\ reselected = FALSE /\ reresult = UNDEF

\* no toJSON or fromJSON call is under way
JsonIdle ==
  original = UNDEF /\ json = UNDEF /\ restored = UNDEF /\ jphase = "none"

\* no hasChanges call is under way
DetIdle == detector = UNDEF /\ detected = "none"

\* no update, undo or transaction is under way
UpdIdle ==
  /\ d0 = UNDEF /\ heap = <<>> /\ data = UNDEF /\ changes = UNDEF
  /\ phase = "idle" /\ err = "" /\ stmt = Absent /\ pre = UNDEF
  /\ nupd = 0 /\ last = "none" /\ ret = UNDEF
  /\ base = UNDEF /\ closed = UNDEF /\ recBase = UNDEF

Init ==
  /\ \E d \in InitData : \E c \in {Clone(<<>>, d)} :
       d0 = d /\ heap = c.h /\ data = c.v
  /\ changes = UNDEF
  /\ phase = "ready"
  /\ err = ""
  /\ stmt = Absent
  /\ pre = UNDEF
  /\ nupd = 0 /\ last = "none" /\ ret = UNDEF
  /\ base = UNDEF /\ closed = UNDEF /\ recBase = UNDEF
  /\ PredIdle
  /\ SelIdle
  /\ JsonIdle
  /\ DetIdle

\* c = update(d, s)
Update(s) ==
  /\ phase = "ready"
  /\ \E r \in {update(heap, data, s, UNDEF)} :
        /\ heap' = r.h
        /\ changes' = IF r.err = "" THEN r.ch ELSE UNDEF
        /\ err' = r.err
        /\ phase' = IF r.err = "" THEN "updated" ELSE "failed"
  /\ stmt' = s
  /\ pre' = Snap(heap, data)
  /\ UNCHANGED <<predvars, selvars, jsonvars, detvars,
                 d0, data, txvars>>

\* undo(d, c) with the record the update returned
Undo ==
  /\ phase = "updated"
  /\ \E r \in {undo(heap, data, changes)} :
        /\ heap' = r.h
        /\ err' = r.err
  /\ phase' = "undone"
  /\ UNCHANGED <<predvars, selvars, jsonvars, detvars,
                 d0, data, changes, stmt, pre, txvars>>

(***************************************************************************)
(* hasChanges, anyChange and typeChange (src/src/change-detection.ts).  A  *)
(* detector is [k |-> "det", all, f]: all is the detector under ALL or     *)
(* NoDetector, f the sequence of its own keys with their detectors; a      *)
(* detector function is [k |-> "fn", id].  The outcome of a call is        *)
(* "true", "false" or the name of the error raised.                        *)
(***************************************************************************)
NoDetector == [k |-> "none"]
DetectorFn(id) == [k |-> "fn", id |-> id]
Detector(all, fields) == [k |-> "det", all |-> all, f |-> fields]

\* typeof x
TypeOf(x) ==
  CASE x.t = "undef" -> "undefined"
    [] x.t = "num" -> "number"
    [] x.t = "bool" -> "boolean"
    [] x.t = "str" -> "string"
    [] OTHER -> "object"

\* anyChange = (key, r) => r !== undefined && key in r
\* the in operator raises a TypeError when r is not an object
anyChange(h, key, r) ==
  IF r = UNDEF THEN "false"
  ELSE IF ~IsRef(r) THEN "TypeError"
  ELSE IF HasKey(h, r, key) THEN "true" ELSE "false"

\* typeChange: the part after the guard
\*   if (!meta || !(key in r) || !(key in meta)) return false
TypesDiffer(newValue, oldValue) ==
  IF newValue = NULL THEN oldValue # NULL
  ELSE IF oldValue = NULL THEN newValue # NULL
  ELSE TypeOf(newValue) # TypeOf(oldValue)

\* typeChange = (key, r) => { const meta = r?.[META]; ... }
\* r?.[META] is undefined for null, undefined and for a number
typeChange(h, key, r) ==
  IF ~IsRef(r) THEN "false"
  ELSE IF ~h[r.v].hm \/ ~HasKey(h, r, key) \/ key \notin DOMAIN h[r.v].m
    THEN "false"
  ELSE IF TypesDiffer(Get(h, r, key), h[r.v].m[key]) THEN "true" ELSE "false"

\* keyDetector(key, result)
ApplyDetectorFn(id, h, key, res) ==
  IF id = "anyChange" THEN anyChange(h, key, res)
  ELSE typeChange(h, key, res)

\* const { [ALL]: all, ...rest } = detector;
\* if (all) for (const key in result) if (!(key in rest)) rest[key] = all
\* the keys of rest, in the order they were written
RestKeys(h, res, dt) ==
  LET own == [i \in 1..Len(dt.f) |-> dt.f[i].key]
  IN IF dt.all.k # "none"
     THEN own \o SelectSeq(ForIn(h, res),
                           LAMBDA key : \A i \in 1..Len(own) : own[i] # key)
     ELSE own

\* rest[key]
RestAt(dt, key) ==
  IF \E i \in 1..Len(dt.f) : dt.f[i].key = key
  THEN dt.f[CHOOSE i \in 1..Len(dt.f) : dt.f[i].key = key].d
  ELSE dt.all

RECURSIVE hasChanges(_, _, _), detectKeys(_, _, _, _, _)

\* the next key of the loop, after the body for a key gave r: return true,
\* and an error raised, end the loop
detectNext(r, h, res, dt, keys, i) ==
  IF r = "false" THEN detectKeys(h, res, dt, keys, i + 1) ELSE r

\* the body of the loop for one key; result[key] raises a TypeError when
\* result is null
detectKey(h, res, key, keyDetector) ==
  CASE keyDetector.k = "fn" -> ApplyDetectorFn(keyDetector.id, h, key, res)
    [] keyDetector.k = "none" -> "false"
    [] OTHER -> IF res = NULL THEN "TypeError"
                ELSE hasChanges(h, Get(h, res, key), keyDetector)

\* for (const key in rest)
detectKeys(h, res, dt, keys, i) ==
  IF i > Len(keys) THEN "false"
  ELSE detectNext(detectKey(h, res, keys[i], RestAt(dt, keys[i])),
                  h, res, dt, keys, i)

hasChanges(h, res, dt) ==
  IF res = UNDEF THEN "false"
  ELSE detectKeys(h, res, dt,
                  ForInKeys(RestKeys(h, res, dt)), 1)

\* the detectors: a function under a key, under a key of a nested detector
\* (one and two levels down) and under ALL, alone or beside a key
DetectorFns == {DetectorFn("anyChange"), DetectorFn("typeChange")}
Under(key, d) == Detector(NoDetector, <<[key |-> key, d |-> d]>>)
Detectors ==
  {Under(k, f) : k \in {"a", "b", "0"}, f \in DetectorFns}
  \cup {Under(k, Under(k2, f)) :
          k \in {"a", "b", "0"}, k2 \in {"x", "0"}, f \in DetectorFns}
  \cup {Under("b", Under("x", Under("x", f))) : f \in DetectorFns}
  \cup {Detector(f, <<>>) : f \in DetectorFns}
  \cup {Detector(Under("x", f), <<>>) : f \in DetectorFns}
  \cup {Detector(DetectorFn("typeChange"),
                 <<[key |-> "a", d |-> DetectorFn("anyChange")]>>)}

\* hasChanges(c, detector) on the record the update returned
Detect(det) ==
  /\ phase = "updated"
  /\ detector' = det
  /\ detected' = hasChanges(heap, changes, det)
  /\ phase' = "detected"
  /\ UNCHANGED <<predvars, selvars, jsonvars,
                 d0, heap, data, changes, err, stmt, pre, txvars>>

Next ==
  \/ \E s \in Statements : Update(s)
  \/ Undo
  \/ \E det \in Detectors : Detect(det)
Spec == Init /\ [][Next]_vars

(***************************************************************************)
(* transaction(data) (src/src/transform.ts): update, commit and revert     *)
(* share the closure variable changes.                                     *)
(***************************************************************************)
\* the transaction makes at most MaxUpdates update calls
MaxUpdates == 3

\* the transaction runs on { a: 1, b: { x: 1, y: 2 }, c: null }
TxData == {DataRecord}
TxStatements ==
  {Fields(<<Fld("a", Lit(Num(MaxNum)))>>),
   Fields(<<Fld("a", Lit(Num(0)))>>),
   Fields(<<Fld("b", Fields(<<Fld("x", Lit(Num(MaxNum)))>>))>>),
   Fields(<<Fld("b", Repl(X(Num(MaxNum))))>>),
   Fields(<<Fld("b", Lit(Num(MaxNum)))>>),
   Fields(<<Fld("b", Del)>>),
   Fields(<<Fld("c", Rec(<<Fld("y", Lit(Num(MaxNum)))>>, Absent, UNDEF,
                         XY(Num(0), Num(0)), NoCtx))>>),
   Rec(<<Fld("a", Lit(Num(MaxNum)))>>, Absent, XIs(1), UNDEF, NoCtx),
   Rec(<<>>, Lit(NULL), UNDEF, UNDEF, NoCtx),
   Absent}

InitTx ==
  /\ \E d \in TxData : \E c \in {Clone(<<>>, d)} :
       /\ d0 = d /\ heap = c.h /\ data = c.v
       /\ base = Snap(c.h, c.v) /\ recBase = Snap(c.h, c.v)
  /\ changes = UNDEF
  /\ phase = "open"
  /\ err = ""
  /\ stmt = Absent
  /\ pre = UNDEF
  /\ nupd = 0 /\ last = "none" /\ ret = UNDEF /\ closed = UNDEF
  /\ PredIdle
  /\ SelIdle
  /\ JsonIdle
  /\ DetIdle

\* update(stmt) { changes = updateImpl(data, stmt, changes); return this }
\* when updateImpl throws, the assignment does not happen
TxUpdate(s) ==
  /\ phase = "open"
  /\ nupd < MaxUpdates
  /\ \E r \in {updateImpl(heap, data, s, changes, NoCtx)} :
        /\ heap' = r.h
        /\ changes' = IF r.err = "" THEN r.ch ELSE changes
        /\ err' = r.err
        /\ phase' = IF r.err = "" THEN "open" ELSE "failed"
        /\ recBase' = IF r.err = "" /\ r.ch = UNDEF THEN Snap(r.h, data)
                      ELSE recBase
  /\ stmt' = s
  /\ pre' = Snap(heap, data)
  /\ nupd' = nupd + 1
  /\ last' = "update"
  /\ UNCHANGED <<predvars, selvars, jsonvars, detvars,
                 d0, data, ret, base, closed>>

\* commit: () => { const v = changes; changes = undefined; return v }
TxCommit ==
  /\ phase = "open"
  /\ ret' = changes
  /\ changes' = UNDEF
  /\ last' = "commit"
  /\ closed' = base
  /\ base' = Snap(heap, data)
  /\ recBase' = Snap(heap, data)
  /\ UNCHANGED <<predvars, selvars, jsonvars, detvars,
                 d0, heap, data, phase, err, stmt, pre, nupd>>

\* revert: () => { if (changes) undo(data, changes); changes = undefined }
TxRevert ==
  /\ phase = "open"
  /\ \E r \in {IF Truthy(changes) THEN undo(heap, data, changes)
                ELSE [h |-> heap, err |-> ""]} :
        /\ heap' = r.h
        /\ err' = r.err
        /\ base' = Snap(r.h, data)
        /\ recBase' = Snap(r.h, data)
  /\ changes' = UNDEF
  /\ last' = "revert"
  /\ closed' = base
  /\ UNCHANGED <<predvars, selvars, jsonvars, detvars,
                 d0, data, phase, stmt, pre, nupd, ret>>

NextTx == (\E s \in TxStatements : TxUpdate(s)) \/ TxCommit \/ TxRevert
SpecTx == InitTx /\ [][NextTx]_vars

(***************************************************************************)
(* update(d, s, c) (src/src/transform.ts): calls threading one             *)
(* ChangeRecord, c = update(d, s1) and then c = update(d, s2, c).  A       *)
(* statement changes a key below a top-level key, or replaces, deletes or  *)
(* overwrites a top-level key.                                             *)
(***************************************************************************)
\* the caller makes at most MaxThreaded update calls
MaxThreaded == 2

ThreadData == {DataRecord, DataNested}
ThreadKeys == {"a", "b"}
NestedStatements ==
  {Fields(<<Fld(k, Fields(<<Fld(k2, o)>>))>>) :
     k \in ThreadKeys, k2 \in {"x", "z", "0", "2"},
     o \in {Lit(Num(MaxNum)), Lit(Num(0)), Del}}
OverwriteOps == {Lit(Num(0)), Lit(NULL), Del, Repl(X(Num(MaxNum))),
                 Repl(Arr(<<Num(0)>>))}
OverwriteStatements ==
  {Fields(<<Fld(k, o)>>) : k \in ThreadKeys, o \in OverwriteOps}
ThreadStatements == NestedStatements \cup OverwriteStatements

InitThread ==
  /\ \E d \in ThreadData : \E c \in {Clone(<<>>, d)} :
       /\ d0 = d /\ heap = c.h /\ data = c.v
       /\ recBase = Snap(c.h, c.v)
  /\ changes = UNDEF
  /\ phase = "ready"
  /\ err = ""
  /\ stmt = Absent
  /\ pre = UNDEF
  /\ nupd = 0 /\ last = "none" /\ ret = UNDEF
  /\ base = UNDEF /\ closed = UNDEF
  /\ PredIdle
  /\ SelIdle
  /\ JsonIdle
  /\ DetIdle

\* c = update(d, s, c): when update throws, the assignment does not happen
ThreadedUpdate(s) ==
  /\ phase = "ready"
  /\ nupd < MaxThreaded
  /\ \E r \in {update(heap, data, s, changes)} :
        /\ heap' = r.h
        /\ changes' = IF r.err = "" THEN r.ch ELSE changes
        /\ err' = r.err
        /\ phase' = IF r.err = "" THEN "ready" ELSE "failed"
  /\ stmt' = s
  /\ pre' = Snap(heap, data)
  /\ nupd' = nupd + 1
  /\ last' = "update"
  /\ UNCHANGED <<predvars, selvars, jsonvars, detvars,
                 d0, data, ret, base, closed, recBase>>

NextThread == \E s \in ThreadStatements : ThreadedUpdate(s)
SpecThread == InitThread /\ [][NextThread]_vars

(***************************************************************************)
(* evalPredicate(value, predicate) (src/src/predicate.ts) on its own: the  *)
(* arguments are drawn from the values and predicates below, and one call  *)
(* is made.                                                                *)
(***************************************************************************)
Strs == {Str(i) : i \in 1..Len(StrChars)}
Scalars == Nums \cup Strs \cup {NULL, UNDEF, Bool(TRUE), Bool(FALSE)}
\* {}, { x: 1 }, { x: null }, { y: 1 }, { x: 1, y: 2 }, [], [1, 2]
PredValues ==
  Scalars \cup {Obj(<<>>), X(Num(1)), X(NULL), Obj(<<<<"y", Num(1)>>>>),
                XY(Num(1), Num(2)), Arr(<<>>), Arr(<<Num(1), Num(2)>>)}

CmpOps == {"EQ", "NEQ", "NOT", "LT", "GT", "LTE", "GTE"}
Operands == {Num(0), Num(1), Num(MaxNum), NULL, Str(1), Str(3)}
\* one operator, { [GT]: 1 }
OneOp ==
  {PAnd(op :> v, NoProps) : op \in CmpOps, v \in Operands}
    \cup {PAnd("MATCH" :> v, NoProps) : v \in Strs \cup {UNDEF}}
\* two operators, { [GT]: 0, [LT]: 2 }
TwoOps ==
  {PAnd(o1 :> v1 @@ o2 :> v2, NoProps) :
     o1 \in CmpOps, o2 \in CmpOps \ {"EQ"},
     v1 \in {Num(0), Num(MaxNum)}, v2 \in {Num(1), Num(MaxNum), Str(1)}}
\* the predicates that occur inside others
BasePreds ==
  {Num(1), NULL, Str(1), PAnd(NoProps, NoProps), POr(<<>>),
   PAnd("GT" :> Num(1), NoProps), PAnd("EQ" :> NULL, NoProps),
   PAnd("NEQ" :> NULL, NoProps), PAnd(NoProps, "x" :> Num(1))}
\* [], [p], [p, q]
OrPreds ==
  {POr(<<>>)} \cup {POr(<<q>>) : q \in BasePreds}
    \cup {POr(<<q1, q2>>) : q1 \in BasePreds, q2 \in BasePreds}
\* { [NOT]: p } with a predicate or a scalar p, alone or with a field
NotPreds ==
  {PAnd("NOT" :> q, f) :
     q \in BasePreds \cup {POr(<<Num(1), Str(1)>>)},
     f \in {NoProps, "x" :> Num(1)}}
\* { x: p }, { z: p }, { x: p, y: q }
FieldPreds ==
  {PAnd(NoProps, k :> q) : k \in {"x", "z", "0", "1.5"}, q \in BasePreds}
    \cup {PAnd(NoProps, "x" :> q1 @@ "y" :> q2) :
            q1 \in {Num(1), NULL}, q2 \in {Num(MaxNum), PAnd("GT" :> Num(1), NoProps)}}
    \cup {PAnd(op :> q, NoProps) : op \in {"ALL", "SOME"}, q \in BasePreds}
Predicates ==
  Scalars \cup OneOp \cup TwoOps \cup OrPreds \cup NotPreds \cup FieldPreds
    \cup {PAnd(NoProps, NoProps)}

InitPred ==
  /\ subject \in PredValues
  /\ predicate \in Predicates
  /\ evaluated = FALSE
  /\ verdict = FALSE
  /\ UpdIdle
  /\ SelIdle
  /\ JsonIdle
  /\ DetIdle

\* verdict = evalPredicate(value, predicate)
Evaluate ==
  /\ ~evaluated
  /\ verdict' = evalPredicate(subject, predicate)
  /\ evaluated' = TRUE
  /\ UNCHANGED <<subject, predicate, selvars, jsonvars, detvars, updvars,
                 txvars>>

NextPred == Evaluate
SpecPred == InitPred /\ [][NextPred]_vars

(***************************************************************************)
(* The select engine (src/src/select.ts).  A select statement is           *)
(* Sel(all, deepAll, where, fields): all and deepAll are its ALL and       *)
(* DEEP_ALL entries (SNone when the entry is not there), where is its      *)
(* WHERE entry (undefined, a predicate or a function), fields lists its    *)
(* string keys in the order they are written.  The value at a key is       *)
(* STrue (the literal true) or a statement.  Data and results are literal  *)
(* trees.                                                                  *)
(***************************************************************************)
STrue == [k |-> "true"]
SNone == [k |-> "none"]
Sel(all, deepAll, where, fields) ==
  [k |-> "sel", all |-> all, deepAll |-> deepAll, where |-> where, f |-> fields]

\* const NO_RESULT = Symbol()
NO_RESULT == [t |-> "none", v |-> 0]

\* Array.isArray(data) ? [] : {}
NewResult(isArray) ==
  [t |-> "obj", arr |-> isArray, len |-> 0, ks |-> <<>>, p |-> NoProps]

\* data[key]
DataAt(tree, key) == IF key \in DOMAIN tree.p THEN tree.p[key] ELSE UNDEF

\* the test at the head of addToResult: on an array, Number(key) must be an
\* integer that is not below 0.  Number(key) is parseInt(key, 10) on a
\* numeral ("01" is 1, "-0" is -0, which is an integer and not below 0),
\* Number("") is 0 and Number("1.0") is 1; every other key of the model
\* ("1.5", "x", "Symbol(*)", ...) converts to a fraction or to NaN.  The key
\* is not normalised: data[key] and result[key] use it as it is written
KeyAccepted(tree, key) ==
  tree.arr => \/ IsNumericKey(key) /\ parseInt(key) >= 0
              \/ key \in {"", "1.0"}

\* result[key] = keyValue, on a result that is created when it is first
\* written
putResult(res, isArray, key, keyValue) ==
  IF keyValue.t = "none" THEN res
  ELSE SetProp(IF res.t = "none" THEN NewResult(isArray) ELSE res, key, keyValue)

\* result.filter((v, i) => i in result): the elements that exist, in index
\* order, as a new array without holes
filterPresent(res) ==
  IF res.t = "obj" /\ res.arr /\ res.len > 0
  THEN Arr([i \in 1..Cardinality({k \in DOMAIN res.p : IsArrayIndex(k)}) |->
              res.p[SelectSeq(NonNegKeys,
                              LAMBDA k : k \in DOMAIN res.p)[i]]])
  ELSE res

\* where ? (typeof where === "function" ? where(data) : evalPredicate(data,
\* where)) : true
wherePasses(where, value) ==
  IF ~Truthy(where) THEN TRUE
  ELSE IF where.t = "fn" THEN ApplyWhereFn(where.id, value, NoCtx)
  ELSE evalPredicate(value, where)

\* deepAll[WHERE], undefined when the pattern is the literal true
deepWhere(deepAll) == IF deepAll.k = "sel" THEN deepAll.where ELSE UNDEF

\* Object.keys(deepAll), empty when the pattern is the literal true
deepKeys(deepAll) ==
  IF deepAll.k = "sel" THEN {deepAll.f[i].key : i \in 1..Len(deepAll.f)}
  ELSE {}

\* the predicate DEEP_ALL uses on an object when its pattern has no WHERE:
\* one { [NOT]: undefined } entry per string key of the pattern
deepPredicate(deepAll) ==
  IF Truthy(deepWhere(deepAll)) THEN deepWhere(deepAll)
  ELSE PAnd(NoProps, [key \in deepKeys(deepAll) |->
                        PAnd("NOT" :> UNDEF, NoProps)])

RECURSIVE selectImpl(_, _)

\* addToResult(key, keyStmt), with data and result passed in and the new
\* result returned
addToResult(tree, res, key, keyStmt) ==
  IF ~KeyAccepted(tree, key) THEN res
  ELSE putResult(res, tree.arr, key,
                 CASE keyStmt.k = "true" -> DataAt(tree, key)
                   [] keyStmt.k = "sel" -> selectImpl(DataAt(tree, key), keyStmt)
                   [] OTHER -> NO_RESULT)

\* deepStmt where an object is never a match: DEEP_ALL always descends
deepStmtDescends(value, deepAll) ==
  IF ~IsTree(value)
  THEN IF Truthy(deepWhere(deepAll)) THEN deepAll ELSE SNone
  ELSE Sel(SNone, deepAll, UNDEF, <<>>)

\* the statement DEEP_ALL applies at one key of the data
deepStmt(value, deepAll) ==
  IF ~IsTree(value)
  THEN IF Truthy(deepWhere(deepAll)) THEN deepAll ELSE SNone
  ELSE IF wherePasses(deepPredicate(deepAll), value) THEN deepAll
  ELSE Sel(SNone, deepAll, UNDEF, <<>>)

\* if (deepAll) for (const key in data) ...
RECURSIVE deepLoop(_, _, _, _, _)
deepLoop(tree, deepAll, keys, i, res) ==
  IF deepAll.k = "none" \/ i > Len(keys) THEN res
  ELSE deepLoop(tree, deepAll, keys, i + 1,
                IF deepStmt(tree.p[keys[i]], deepAll).k = "none" THEN res
                ELSE addToResult(tree, res, keys[i],
                                 deepStmt(tree.p[keys[i]], deepAll)))

\* if (all) for (const key in data) addToResult(key, all)
RECURSIVE allLoop(_, _, _, _, _)
allLoop(tree, all, keys, i, res) ==
  IF all.k = "none" \/ i > Len(keys) THEN res
  ELSE allLoop(tree, all, keys, i + 1, addToResult(tree, res, keys[i], all))

\* for (const key in rest) addToResult(key, rest[key])
RECURSIVE restLoop(_, _, _, _, _)
restLoop(tree, fields, keys, i, res) ==
  IF i > Len(keys) THEN res
  ELSE restLoop(tree, fields, keys, i + 1,
                addToResult(tree, res, keys[i], Field(fields, keys[i])))

selectImpl(value, s) ==
  IF ~wherePasses(s.where, value) THEN NO_RESULT
  ELSE IF ~IsTree(value) THEN value
  ELSE restLoop(value, s.f, ForInKeys([i \in 1..Len(s.f) |-> s.f[i].key]), 1,
         filterPresent(
           allLoop(value, s.all, ForInKeys(value.ks), 1,
             deepLoop(value, s.deepAll, ForInKeys(value.ks), 1, NO_RESULT))))

\* select(data, stmt)
select(value, s) ==
  IF selectImpl(value, s).t = "none" THEN UNDEF ELSE selectImpl(value, s)

(***************************************************************************)
(* select on its own: the arguments are drawn from the trees and           *)
(* statements below, and one call is made.                                 *)
(***************************************************************************)
\* the elements of the sequences and records selected from
SelElems == {Num(1), Num(2), NULL, XY(Num(1), Num(2)), X(Num(2))}
SelArrays ==
  {Arr(<<>>)} \cup {Arr(<<a>>) : a \in SelElems}
    \cup {Arr(<<a, b>>) : a \in SelElems, b \in SelElems}
    \cup {Arr(<<a, b, c>>) : a \in SelElems, b \in SelElems, c \in SelElems}
SelRecords ==
  {Obj(<<<<"a", a>>, <<"b", b>>>>) : a \in SelElems, b \in SelElems}
    \cup {Obj(<<<<"a", Obj(<<<<"b", XY(Num(1), Num(2))>>, <<"x", Num(1)>>>>)>>,
                <<"y", NULL>>>>),
          Obj(<<<<"a", Obj(<<<<"x", Num(1)>>, <<"b", XY(Num(2), NULL)>>>>)>>>>),
          Arr(<<Arr(<<X(Num(1)), XY(Num(2), Num(1))>>), X(NULL)>>)}
Sources == SelArrays \cup SelRecords \cup {Num(1), NULL, UNDEF}

SelWheres ==
  {PAnd("GT" :> Num(1), NoProps), XIs(1),
   PAnd(NoProps, "y" :> PAnd("EQ" :> NULL, NoProps)),
   WhereFn("isNullish"), WhereFn("never")}
SelFields ==
  {<<>>, <<Fld("x", STrue)>>, <<Fld("y", STrue)>>,
   <<Fld("x", STrue), Fld("y", STrue)>>}
\* true, { x: true }, { [WHERE]: w, x: true, y: true }, ...
Leaves ==
  {STrue} \cup {Sel(SNone, SNone, w, f) : w \in {UNDEF} \cup SelWheres, f \in SelFields}
SmallLeaves ==
  {STrue, Sel(SNone, SNone, UNDEF, <<Fld("x", STrue)>>),
   Sel(SNone, SNone, UNDEF, <<Fld("y", STrue)>>),
   Sel(SNone, SNone, PAnd("GT" :> Num(1), NoProps), <<>>),
   Sel(SNone, SNone, XIs(1), <<Fld("x", STrue)>>)}
SelKeys == {"0", "1", "2", "3", "-1", "1.5", "x", "a", "", "1.0", "01", "-0"}
\* { [ALL]: l }
AllOnly == {Sel(l, SNone, UNDEF, <<>>) : l \in Leaves}
\* { [ALL]: l, k: m }
AllAndKey ==
  {Sel(l, SNone, UNDEF, <<Fld(key, m)>>) :
     l \in SmallLeaves, key \in {"0", "1", "a", "b"}, m \in SmallLeaves}
\* { k: l }, { k1: l, k2: true }
KeysOnly ==
  {Sel(SNone, SNone, UNDEF, <<Fld(key, l)>>) : key \in SelKeys, l \in SmallLeaves}
    \cup {Sel(SNone, SNone, UNDEF, <<Fld(kk[1], l), Fld(kk[2], STrue)>>) :
            kk \in {pair \in SelKeys \X SelKeys : pair[1] # pair[2]},
            l \in {STrue, Sel(SNone, SNone, UNDEF, <<Fld("x", STrue)>>)}}
    \cup {Sel(SNone, SNone, UNDEF,
              <<Fld("2", STrue), Fld("0", STrue), Fld("-1", STrue)>>)}
\* { [DEEP_ALL]: l }
DeepOnly ==
  {Sel(SNone, l, UNDEF, <<>>) :
     l \in {Sel(SNone, SNone, UNDEF, <<Fld("x", STrue)>>),
            Sel(SNone, SNone, UNDEF, <<Fld("x", STrue), Fld("y", STrue)>>),
            Sel(SNone, SNone, XIs(1), <<Fld("y", STrue)>>),
            Sel(SNone, SNone, PAnd(NoProps, "y" :> PAnd("EQ" :> NULL, NoProps)),
                <<Fld("x", STrue)>>),
            Sel(SNone, SNone, PAnd(NoProps, "x" :> PAnd("EQ" :> NULL, NoProps)),
                <<Fld("y", STrue)>>),
            STrue}}
Selections ==
  AllOnly \cup AllAndKey \cup KeysOnly \cup DeepOnly \cup (Leaves \ {STrue})

InitSelect ==
  /\ source \in Sources
  /\ selection \in Selections
  /\ selected = FALSE
  /\ result = UNDEF
  /\ reselected = FALSE
  /\ reresult = UNDEF
  /\ UpdIdle
  /\ PredIdle
  /\ JsonIdle
  /\ DetIdle

\* result = select(data, stmt)
Select ==
  /\ ~selected
  /\ result' = select(source, selection)
  /\ selected' = TRUE
  /\ UNCHANGED <<source, selection, reselected, reresult, predvars,
                 jsonvars, detvars, updvars, txvars>>

\* reresult = select(result, stmt)
Reselect ==
  /\ selected /\ ~reselected
  /\ reresult' = select(result, selection)
  /\ reselected' = TRUE
  /\ UNCHANGED <<source, selection, selected, result, predvars,
                 jsonvars, detvars, updvars, txvars>>

NextSelect == Select \/ Reselect
SpecSelect == InitSelect /\ [][NextSelect]_vars

(***************************************************************************)
(* JSON serialization of statements (src/unnamed/part_004).  A statement   *)
(* is a scalar, a function, an array JArr(<<e1, ..>>) or an object         *)
(* JObj(p) where p maps its own keys to their values; a key is a symbol    *)
(* (SymKey) or a string (StrKey).                                          *)
(***************************************************************************)
SymKey(name) == [sym |-> TRUE, n |-> name]
StrKey(str) == [sym |-> FALSE, n |-> str]
JObj(p) == [t |-> "jobj", p |-> p]
JArr(e) == [t |-> "jarr", e |-> e]
JFn == [t |-> "fn", v |-> 0]

\* throw new SerializationError(...)
SerializationError == [t |-> "error", v |-> 0]

\* symbolToString, as the list of its entries
symbolToString ==
  <<<<"ALL", "*">>, <<"DEEP_ALL", "**">>, <<"WHERE", "?">>, <<"DEFAULT", "{}">>,
    <<"CONTEXT", "$">>, <<"META", "#">>, <<"LT", "<">>, <<"GT", ">">>,
    <<"LTE", "<=">>, <<"GTE", ">=">>, <<"EQ", "==">>, <<"NEQ", "!=">>,
    <<"NOT", "!">>, <<"MATCH", "~">>, <<"SOME", "|">>>>

\* symbolToString.get(symbol) !== undefined, and its value
HasToken(name) == \E i \in 1..Len(symbolToString) : symbolToString[i][1] = name
TokenOf(name) ==
  symbolToString[CHOOSE i \in 1..Len(symbolToString) :
                   symbolToString[i][1] = name][2]

\* stringToSymbol.get(key) !== undefined, and its value
IsToken(str) == \E i \in 1..Len(symbolToString) : symbolToString[i][2] = str
SymbolOf(str) ==
  symbolToString[CHOOSE i \in 1..Len(symbolToString) :
                   symbolToString[i][2] = str][1]

\* the key toJSON writes for a key it keeps (a symbol without a token is
\* skipped)
Kept(key) == ~key.sym \/ HasToken(key.n)
JsonKey(key) == IF key.sym THEN StrKey(TokenOf(key.n)) ELSE key

\* toJSON(statement): Reflect.ownKeys lists the string keys before the
\* symbol keys, so when a string key equals the token of a symbol key the
\* value of the symbol key is written last
RECURSIVE toJSON(_)
toJSON(statement) ==
  CASE statement.t = "fn" -> SerializationError
    [] statement.t = "jarr" ->
         IF \E i \in 1..Len(statement.e) :
              toJSON(statement.e[i]) = SerializationError
         THEN SerializationError
         ELSE JArr([i \in 1..Len(statement.e) |-> toJSON(statement.e[i])])
    [] statement.t = "jobj" ->
         IF \E key \in DOMAIN statement.p :
              Kept(key) /\ toJSON(statement.p[key]) = SerializationError
         THEN SerializationError
         ELSE JObj([out \in {JsonKey(key) : key \in {k \in DOMAIN statement.p : Kept(k)}} |->
                      IF \E key \in DOMAIN statement.p :
                           key.sym /\ Kept(key) /\ JsonKey(key) = out
                      THEN toJSON(statement.p[CHOOSE key \in DOMAIN statement.p :
                                     key.sym /\ Kept(key) /\ JsonKey(key) = out])
                      ELSE toJSON(statement.p[out])])
    [] OTHER -> statement

\* the key fromJSON writes for a string key
StatementKey(key) == IF IsToken(key.n) THEN SymKey(SymbolOf(key.n)) ELSE key

\* fromJSON(json): for...in visits the string keys only
RECURSIVE fromJSON(_)
fromJSON(js) ==
  CASE js.t = "fn" -> SerializationError
    [] js.t = "jarr" ->
         IF \E i \in 1..Len(js.e) : fromJSON(js.e[i]) = SerializationError
         THEN SerializationError
         ELSE JArr([i \in 1..Len(js.e) |-> fromJSON(js.e[i])])
    [] js.t = "jobj" ->
         IF \E key \in DOMAIN js.p :
              ~key.sym /\ fromJSON(js.p[key]) = SerializationError
         THEN SerializationError
         ELSE JObj([out \in {StatementKey(key) : key \in {k \in DOMAIN js.p : ~k.sym}} |->
                      fromJSON(js.p[CHOOSE key \in DOMAIN js.p :
                                      ~key.sym /\ StatementKey(key) = out])])
    [] OTHER -> js

(***************************************************************************)
(* toJSON followed by fromJSON, on the statements below.                   *)
(***************************************************************************)
\* the symbol "other" is a symbol that is not one of the operators
JKeys ==
  {SymKey("ALL"), SymKey("WHERE"), SymKey("GT"), SymKey("META"),
   SymKey("other"), StrKey("x"), StrKey("*"), StrKey("?")}
JLeaves == {Num(1), NULL, Str(1), Bool(TRUE), JFn}
\* { k: v }
JInner == {JObj(key :> v) : key \in JKeys, v \in JLeaves \ {Bool(TRUE)}}
JArrays == {JArr(<<>>), JArr(<<Num(1), JObj(SymKey("ALL") :> Num(1))>>),
            JArr(<<JObj(StrKey("*") :> NULL)>>), JArr(<<JFn>>)}
\* { k: v }, { k1: v1, k2: v2 }
JStatements ==
  {JObj(key :> v) : key \in JKeys, v \in JLeaves \cup JInner \cup JArrays}
    \cup {JObj(kk[1] :> v1 @@ kk[2] :> v2) :
            kk \in {pair \in JKeys \X JKeys : pair[1] # pair[2]},
            v1 \in {Num(1), NULL, JObj(StrKey("x") :> Num(1))},
            v2 \in {Str(1), JObj(SymKey("GT") :> Num(1))}}
    \cup JLeaves \cup JArrays

InitJson ==
  /\ original \in JStatements
  /\ json = UNDEF
  /\ restored = UNDEF
  /\ jphase = "new"
  /\ UpdIdle
  /\ PredIdle
  /\ SelIdle
  /\ DetIdle

\* json = toJSON(original)
ToJSON ==
  /\ jphase = "new"
  /\ json' = toJSON(original)
  /\ jphase' = "serialized"
  /\ UNCHANGED <<original, restored, predvars, selvars, detvars, updvars,
                 txvars>>

\* restored = fromJSON(json), when toJSON has not thrown
FromJSON ==
  /\ jphase = "serialized"
  /\ json # SerializationError
  /\ restored' = fromJSON(json)
  /\ jphase' = "restored"
  /\ UNCHANGED <<original, json, predvars, selvars, detvars, updvars, txvars>>

NextJson == ToJSON \/ FromJSON
SpecJson == InitJson /\ [][NextJson]_vars

(***************************************************************************)
(* Comparing data trees.                                                   *)
(***************************************************************************)
\* tree[key], undefined when the key is absent
At(tree, key) == IF key \in DOMAIN tree.p THEN tree.p[key] ELSE UNDEF

\* deep equality of two snapshots as values: a key that holds undefined
\* counts as an absent key, arrays must agree on their length
RECURSIVE SameValue(_, _)
SameValue(a, b) ==
  IF IsTree(a) /\ IsTree(b)
  THEN /\ a.arr = b.arr
       /\ a.len = b.len
       /\ \A k \in (DOMAIN a.p) \cup (DOMAIN b.p) : SameValue(At(a, k), At(b, k))
  ELSE ~IsTree(a) /\ ~IsTree(b) /\ a = b

\* C1: round-trip law: when update(d, s) returned a ChangeRecord c, after
\* undo(d, c) the data tree equals its value before the update
RoundTrip ==
  (phase = "undone" /\ changes # UNDEF) => SameValue(Snap(heap, data), pre)

\* C2: after any sequence of transaction updates followed by revert(), the
\* data tree equals the value it had when the accumulation began
RevertRestores ==
  last = "revert" => SameValue(Snap(heap, data), closed)

\* the originals a ChangeRecord holds, at every level undo would reach, are
\* the values of a given tree: for a key with a META entry the original
\* equals the tree's value at that key; a key without one holds a nested
\* ChangeRecord, compared against the tree's value at that key
RECURSIVE OriginalsAre(_, _)
OriginalsAre(record, tree) ==
  IsTree(record) =>
    \A key \in DOMAIN record.p :
      IF record.hm /\ key \in DOMAIN record.m
      THEN IsTree(tree) /\ SameValue(record.m[key], At(tree, key))
      ELSE IsTree(record.p[key]) =>
             (IsTree(tree) /\ OriginalsAre(record.p[key], At(tree, key)))

\* C3: commit() and revert() empty the accumulated record: the record a
\* commit() returns holds only changes made since the previous
\* commit()/revert(), its originals being the data values at that point
CommitReturnsFresh ==
  (last = "commit" /\ ret # UNDEF) => OriginalsAre(Snap(heap, ret), closed)

\* C3, first part: a commit() directly after a commit() or revert() returns
\* absent, and a revert() directly after a commit() leaves the data unchanged
CommitRevertClear ==
  [][/\ (last \in {"commit", "revert"} /\ last' = "commit") => ret' = UNDEF
     /\ (last = "commit" /\ last' = "revert")
          => Snap(heap', data') = Snap(heap, data)]_vars

\* the new values a ChangeRecord holds are the values of a given tree: a key
\* with a META entry holds the tree's value at that key
RECURSIVE NewValuesAre(_, _)
NewValuesAre(record, tree) ==
  IsTree(record) =>
    \A key \in DOMAIN record.p :
      IF record.hm /\ key \in DOMAIN record.m
      THEN IsTree(tree) /\ SameValue(record.p[key], At(tree, key))
      ELSE IsTree(record.p[key]) =>
             (IsTree(tree) /\ NewValuesAre(record.p[key], At(tree, key)))

\* C4: first-observed-original invariant: the META original a threaded
\* ChangeRecord holds for a key is the value the key had before its first
\* recorded change, that is when the record was started, and the value the
\* record holds for the key is the key's latest value
FirstOriginalKept ==
  changes # UNDEF =>
    /\ OriginalsAre(Snap(heap, changes), recBase)
    /\ NewValuesAre(Snap(heap, changes), Snap(heap, data))

\* C5: update(d, s) returns absent whenever applying s leaves every key of
\* d, at every level, with the value it had before the call
NoChangeNoRecord ==
  (phase = "updated" /\ Snap(heap, data) = pre) => changes = UNDEF

\* the key of a tree that a field key addresses: on a sequence a negative
\* index within range counts from the end
Addressed(tree, key) ==
  IF tree.arr /\ IsNumericKey(key) /\ parseInt(key) < 0
     /\ tree.len + parseInt(key) >= 0
  THEN String(tree.len + parseInt(key)) ELSE key

\* update(d, s) on a fresh copy of a tree, and of the data tree as first
\* given: the error thrown, the tree afterwards and the record returned
ResultOn(tree, s) ==
  LET c == Clone(<<>>, tree)
      r == update(c.h, c.v, s, UNDEF)
  IN [err |-> r.err, v |-> Snap(r.h, c.v), ch |-> Snap(r.h, r.ch)]
ResultOf(s) == ResultOn(d0, s)

\* C6: explicit entries take precedence over ALL: a key an explicit field
\* directive addresses, by its name or by a positive or negative index, ends
\* as that directive alone leaves it, and every other existing key ends as
\* ALL's sub-statement alone leaves it (stated for ALL operands and explicit
\* operands that updateImpl does not take for absent ones)
ExplicitOverAll ==
  (/\ phase = "updated" /\ stmt.k = "rec" /\ TruthyStmt(stmt.all)
   /\ \A i \in 1..Len(stmt.f) : stmt.f[i].op # Absent) =>
    LET post == Snap(heap, data)
        explicit == 1..Len(stmt.f)
        addressed == {Addressed(pre, stmt.f[i].key) : i \in explicit}
    IN /\ \A i \in explicit :
            LET alone == ResultOf(Fields(<<stmt.f[i]>>))
                key == Addressed(pre, stmt.f[i].key)
            IN alone.err = "" => At(post, key) = At(alone.v, key)
       /\ \A key \in (DOMAIN pre.p) \ addressed :
            LET alone == ResultOf(Fields(<<Fld(key, stmt.all)>>))
            IN alone.err = "" => At(post, key) = At(alone.v, key)

\* the last update had one field directive and no ALL, WHERE or CONTEXT
OneDirective ==
  /\ stmt.k = "rec" /\ Len(stmt.f) = 1 /\ stmt.all = Absent
  /\ stmt.where = UNDEF /\ ~stmt.vars.has

\* C7: on a sequence of length L a field key "-N" with 1 <= N <= L addresses
\* element L-N: only that element changes, it ends as the same directive
\* under the key L-N leaves it, the length stays L and the change is
\* recorded under the key L-N
NegativeIndex ==
  (/\ phase = "updated" /\ pre.arr /\ OneDirective
   /\ IsNumericKey(stmt.f[1].key) /\ parseInt(stmt.f[1].key) < 0
   /\ 0 - parseInt(stmt.f[1].key) <= pre.len) =>
    LET resolved == String(pre.len + parseInt(stmt.f[1].key))
        op == stmt.f[1].op
        post == Snap(heap, data)
        record == Snap(heap, changes)
        positive == ResultOf(Fields(<<Fld(resolved, op)>>))
    IN /\ post.len = pre.len
       /\ \A key \in (DOMAIN pre.p) \cup (DOMAIN post.p) :
            key # resolved =>
              /\ key \in DOMAIN pre.p /\ key \in DOMAIN post.p
              /\ post.p[key] = pre.p[key]
       /\ op.k = "lit" => At(post, resolved) = op.v
       /\ op.k = "del" => resolved \notin DOMAIN post.p
       /\ positive.err = "" /\ post = positive.v /\ record = positive.ch
       /\ IsTree(record) => DOMAIN record.p = {resolved}
       /\ At(post, resolved) # At(pre, resolved) =>
            IsTree(record) /\ resolved \in DOMAIN record.p

\* update(d, { "-2": v }) on a sequence of length 2 has changed element 0
NegativeIndexWitness ==
  /\ phase = "updated" /\ pre.arr /\ pre.len = 2 /\ OneDirective
  /\ stmt.f[1].key = "-2"
  /\ changes # UNDEF
  /\ At(Snap(heap, data), "0") # At(pre, "0")

\* C8: there is no partial-success state: when update raises a usage error
\* the data tree is exactly as it was before the call
NoPartialOnError ==
  (phase = "failed"
   /\ err \in {"Can't partially update a non-object",
               "Multiple element arrays not allowed"}) =>
    Snap(heap, data) = pre

\* C9: on a sequence, a field key "-N" with N greater than the length or a
\* non-numeric key is silently ignored: no error, the sequence unchanged (no
\* extra property) and no change recorded
OutOfRangeIgnored ==
  (/\ phase \in {"updated", "failed"} /\ pre.arr /\ OneDirective
   /\ \/ ~IsNumericKey(stmt.f[1].key)
      \/ parseInt(stmt.f[1].key) + pre.len < 0) =>
    /\ err = ""
    /\ Snap(heap, data) = pre
    /\ changes = UNDEF

\* the operand without its DEFAULT entry
WithoutDefault(op) == [op EXCEPT !.def = UNDEF]

\* the last update had one field directive whose operand is record-shaped
\* and carries DEFAULT, addressing a key of a record
DefaultDirective ==
  /\ phase \in {"updated", "failed"} /\ ~pre.arr /\ OneDirective
  /\ stmt.f[1].op.k = "rec"
  /\ stmt.f[1].op.def # UNDEF

\* C10: a record-shaped operand carrying DEFAULT that addresses a null or
\* absent key sets the key to what the operand's remaining directives make
\* of a clone of DEFAULT's value, and records the key with the null/absent
\* value as original; when the key holds a record or sequence the result is
\* that of the operand without DEFAULT
DefaultWhenNullish ==
  DefaultDirective =>
    LET key == stmt.f[1].key
        op == stmt.f[1].op
        old == At(pre, key)
        post == Snap(heap, data)
        record == Snap(heap, changes)
        onClone == ResultOn(op.def, WithoutDefault(op))
        plain == ResultOf(Fields(<<Fld(key, WithoutDefault(op))>>))
    IN /\ IsNullish(old) =>
            /\ err = onClone.err
            /\ err = "" =>
                 /\ At(post, key) = onClone.v
                 /\ \A k \in (DOMAIN pre.p) \ {key} :
                      k \in DOMAIN post.p /\ post.p[k] = pre.p[k]
                 /\ DOMAIN post.p = (DOMAIN pre.p) \cup {key}
                 /\ IsTree(record) /\ DOMAIN record.p = {key}
                 /\ record.p[key] = At(post, key)
                 /\ record.hm /\ DOMAIN record.m = {key}
                 /\ record.m[key] = old
       /\ IsTree(old) =>
            /\ err = plain.err /\ post = plain.v /\ record = plain.ch

\* the context a statement level has, by the rule of the claim: the CONTEXT
\* entries on the path from the root, a deeper entry winning per key
PathContext(context, own) ==
  IF own.has
  THEN Ctx([k \in (DOMAIN own.m) \cup (DOMAIN context.m) |->
              IF k \in DOMAIN own.m THEN own.m[k] ELSE context.m[k]])
  ELSE context

\* the WHERE entry with a function of the context evaluated by that rule
ResolveWhere(where, context) ==
  IF where.t = "fn" /\ where.id = "ctxMIsMax"
  THEN IF "m" \in DOMAIN context.m /\ context.m["m"] = Num(MaxNum)
       THEN UNDEF ELSE WhereFn("never")
  ELSE where

\* the statement with every function of the context replaced by the value
\* it returns under the context of its level, and every CONTEXT entry removed
RECURSIVE Resolve(_, _)
Resolve(s, context) ==
  IF s.k = "fn"
  THEN Lit(IF CtxKey(s.id) \in DOMAIN context.m THEN context.m[CtxKey(s.id)]
           ELSE UNDEF)
  ELSE IF s.k # "rec" THEN s
  ELSE Rec([i \in 1..Len(s.f) |->
              Fld(s.f[i].key, Resolve(s.f[i].op, PathContext(context, s.vars)))],
           Resolve(s.all, PathContext(context, s.vars)),
           ResolveWhere(s.where, PathContext(context, s.vars)),
           s.def, NoCtx)

\* C11: the context a transform or WHERE function gets at a statement level
\* is the merge of the CONTEXT entries on the path from the root to that
\* level: an update whose root carries CONTEXT ends as the update by the
\* statement with every function evaluated under the context of its level
ContextScoped ==
  (phase \in {"updated", "failed"} /\ stmt.k = "rec" /\ stmt.vars.has) =>
    \E expected \in {ResultOf(Resolve(stmt, NoCtx))} :
      /\ err = expected.err
      /\ Snap(heap, data) = expected.v

\* the predicate is a record of comparison operators only, at least one
OperatorsOnly(pred) ==
  /\ IsPAnd(pred)
  /\ DOMAIN pred.f = {}
  /\ DOMAIN pred.ops # {}
  /\ DOMAIN pred.ops \subseteq CmpOps

\* C12: for a number or string, a record of comparison operators holds
\* exactly when each of its operator entries, taken alone, holds
OperatorsAreAnd ==
  (evaluated /\ subject.t \in {"num", "str"} /\ OperatorsOnly(predicate)) =>
    (verdict <=> \A op \in DOMAIN predicate.ops :
                   evalPredicate(subject, PAnd(op :> predicate.ops[op], NoProps)))

\* C13: the record predicate without any entry holds for every value
VacuousAnd ==
  (evaluated /\ predicate = PAnd(NoProps, NoProps)) => verdict

\* C14: a sequence predicate holds exactly when one of its elements holds
\* for the value, whatever the value is
SequenceIsOr ==
  (evaluated /\ predicate.t = "por") =>
    (verdict <=> \E i \in 1..Len(predicate.e) :
                   evalPredicate(subject, predicate.e[i]))

\* the value is a record (not a sequence) that lacks key
Lacks(value, key) ==
  IsTree(value) /\ ~value.arr /\ key \notin DOMAIN value.p

\* the predicate is { key: p } and nothing else
OneFieldPred(pred) ==
  IsPAnd(pred) /\ DOMAIN pred.ops = {} /\ Cardinality(DOMAIN pred.f) = 1
FieldOf(pred) == CHOOSE key \in DOMAIN pred.f : TRUE

\* C15: a field predicate { f: p } on a record that lacks f is p evaluated
\* on undefined; so { f: { EQ: null } } holds for the record and
\* { f: { NEQ: null } } does not
MissingFieldIsAbsent ==
  (evaluated /\ OneFieldPred(predicate) /\ Lacks(subject, FieldOf(predicate))) =>
    /\ verdict <=> evalPredicate(UNDEF, predicate.f[FieldOf(predicate)])
    /\ predicate.f[FieldOf(predicate)] = PAnd("EQ" :> NULL, NoProps) => verdict
    /\ predicate.f[FieldOf(predicate)] = PAnd("NEQ" :> NULL, NoProps) => ~verdict

\* { x: { EQ: null } } has been evaluated on a record that has no x
MissingFieldIsAbsentWitness ==
  /\ evaluated
  /\ predicate = PAnd(NoProps, "x" :> PAnd("EQ" :> NULL, NoProps))
  /\ Lacks(subject, "x")
  /\ DOMAIN subject.p # {}
  /\ verdict

\* the predicate is { [NOT]: operand } and nothing else
OnlyNot(pred) ==
  IsPAnd(pred) /\ DOMAIN pred.ops = {"NOT"} /\ DOMAIN pred.f = {}

\* C16: { NOT: p } with a sequence or record p holds exactly when p does not
\* hold for the value, whatever the value is; with a scalar p it holds
\* exactly when the value is not strictly equal to p
NotNegates ==
  (evaluated /\ OnlyNot(predicate)) =>
    IF IsScalar(predicate.ops["NOT"])
    THEN verdict <=> ~StrictEq(subject, predicate.ops["NOT"])
    ELSE verdict <=> ~evalPredicate(subject, predicate.ops["NOT"])

\* the predicate is { [op]: operand } and nothing else
OnlyOp(pred, op) ==
  IsPAnd(pred) /\ DOMAIN pred.ops = {op} /\ DOMAIN pred.f = {}

\* C17: LT, GT, LTE and GTE are false for a value that is neither a number
\* nor a string, and MATCH is false for a value that is not a string
MismatchIsFalse ==
  evaluated =>
    /\ (subject.t \notin {"num", "str"}
          /\ \E op \in {"LT", "GT", "LTE", "GTE"} : OnlyOp(predicate, op))
         => ~verdict
    /\ (subject.t # "str" /\ OnlyOp(predicate, "MATCH")) => ~verdict

\* every field of the selection part is in the selection whole, with the
\* same value (a field that holds undefined counts as an absent field)
Includes(whole, part) ==
  IsTree(part) =>
    /\ IsTree(whole)
    /\ \A key \in DOMAIN part.p : SameValue(At(whole, key), part.p[key])

\* the statement has ALL and an entry for key, both of them statements
\* without WHERE, and the data has a record or sequence at key
AllAndExplicit(key) ==
  /\ selected /\ IsTree(source) /\ selection.all.k = "sel"
  /\ Field(selection.f, key).k = "sel"
  /\ selection.all.where = UNDEF /\ Field(selection.f, key).where = UNDEF
  /\ key \in DOMAIN source.p /\ IsTree(source.p[key])
  /\ KeyAccepted(source, key)

\* C18: when a statement has ALL and an entry for a key, the result at that
\* key has every field the ALL sub-statement selects there and every field
\* the entry selects there
AllMergesExplicit ==
  \A key \in SelKeys \cup {"b"} :
    AllAndExplicit(key) =>
      /\ IsTree(result) /\ key \in DOMAIN result.p
      /\ Includes(result.p[key], select(source.p[key], selection.all))
      /\ Includes(result.p[key], select(source.p[key], Field(selection.f, key)))

\* the call was select(sequence, { [ALL]: sub }) with a WHERE in sub
AllWithWhere ==
  /\ selected /\ IsTree(source) /\ source.arr
  /\ selection.all.k = "sel" /\ Truthy(selection.all.where)
  /\ selection.f = <<>> /\ selection.deepAll.k = "none"
  /\ selection.where = UNDEF

\* the indices of the elements that satisfy the WHERE of the ALL
\* sub-statement, ascending
Passing ==
  SelectSeq(SubSeq(NonNegKeys, 1, source.len),
            LAMBDA key : /\ key \in DOMAIN source.p
                         /\ wherePasses(selection.all.where, source.p[key]))

\* res is the sequence without holes of what the ALL sub-statement selects
\* from the passing elements, in their order
IsDenseSelection(res) ==
  /\ IsTree(res) /\ res.arr
  /\ res.len = Len(Passing)
  /\ \A j \in 1..Len(Passing) :
       /\ String(j - 1) \in DOMAIN res.p
       /\ res.p[String(j - 1)] = select(source.p[Passing[j]], selection.all)

\* C19: select on a sequence with ALL whose sub-statement has WHERE returns
\* the sequence, without holes, of the selections of the elements that
\* satisfy WHERE, in their order; its length is the number of such elements
DenseFiltered ==
  AllWithWhere => IsDenseSelection(result)

\* the call was select(sequence, stmt) with a statement of string keys only
KeysOnSequence ==
  /\ selected /\ IsTree(source) /\ source.arr
  /\ selection.all.k = "none" /\ selection.deepAll.k = "none"
  /\ selection.where = UNDEF /\ selection.f # <<>>

\* what the entry of the statement at key selects from data[key]
\* (NO_RESULT when it selects nothing)
EntrySelects(key) ==
  IF Field(selection.f, key).k = "true" THEN DataAt(source, key)
  ELSE selectImpl(DataAt(source, key), Field(selection.f, key))

\* key is an index of the data that the statement selects something at
SelectedIndex(key) ==
  /\ HasField(selection.f, key)
  /\ IsArrayIndex(key) /\ parseInt(key) < source.len
  /\ EntrySelects(key).t # "none"

\* C20: select on a sequence by index keys keeps positions: what an entry
\* selects from data[i] is at index i of the result, every other position
\* of the result is a hole, the result is as long as its highest index
\* requires, and negative and non-integer keys add nothing
PositionsKept ==
  KeysOnSequence =>
    /\ \A key \in SelKeys :
         SelectedIndex(key) =>
           /\ IsTree(result) /\ result.arr
           /\ key \in DOMAIN result.p
           /\ result.p[key] = EntrySelects(key)
           /\ result.len > parseInt(key)
    /\ IsTree(result) =>
         /\ \A key \in DOMAIN result.p :
              HasField(selection.f, key) /\ IsArrayIndex(key)
         /\ \E key \in DOMAIN result.p : result.len = parseInt(key) + 1
    /\ (\A i \in 1..Len(selection.f) : ~IsArrayIndex(selection.f[i].key))
         => result = UNDEF

\* C21: select of fields from a value that is not a record or sequence
\* (a scalar, null or undefined) yields undefined
ScalarYieldsAbsent ==
  (selected /\ ~IsTree(source) /\ selection.f # <<>>) => result = UNDEF

\* C22: selecting from a result again, by the same statement, returns the
\* result: select(select(d, s), s) = select(d, s)
SelectIdempotent ==
  reselected => SameValue(reresult, result)

\* the call was select(data, { [DEEP_ALL]: pattern }) with a pattern of
\* fields to take (key: true) and no WHERE
DeepFieldsOnly ==
  /\ selected /\ IsTree(source)
  /\ selection.deepAll.k = "sel" /\ selection.all.k = "none"
  /\ selection.where = UNDEF /\ selection.f = <<>>
  /\ selection.deepAll.where = UNDEF /\ selection.deepAll.f # <<>>
  /\ \A i \in 1..Len(selection.deepAll.f) : selection.deepAll.f[i].op.k = "true"

\* the keys the pattern lists
Listed == {selection.deepAll.f[i].key : i \in 1..Len(selection.deepAll.f)}

\* below node, every topmost record that has a listed field is in res at the
\* same path, with exactly the listed fields it has
RECURSIVE Collected(_, _)
Collected(node, res) ==
  \A key \in DOMAIN node.p :
    (IsTree(node.p[key]) /\ ~node.p[key].arr) =>
      IF (DOMAIN node.p[key].p) \cap Listed # {}
      THEN /\ IsTree(res) /\ key \in DOMAIN res.p /\ IsTree(res.p[key])
           /\ DOMAIN res.p[key].p = (DOMAIN node.p[key].p) \cap Listed
           /\ \A f \in DOMAIN res.p[key].p : res.p[key].p[f] = node.p[key].p[f]
      ELSE Collected(node.p[key], IF IsTree(res) THEN At(res, key) ELSE UNDEF)

\* C23: DEEP_ALL without WHERE collects each listed field on its own: a
\* record that has at least one of the listed fields is in the result, at
\* its path, with exactly the listed fields it has
DeepCollectsIndependently ==
  DeepFieldsOnly => Collected(source, result)

\* the call was select(data, { [DEEP_ALL]: pattern }) with a pattern whose
\* WHERE is { f: { [EQ]: null } }
DeepWhereNull(f) ==
  /\ selected /\ IsTree(source)
  /\ selection.deepAll.k = "sel" /\ selection.all.k = "none"
  /\ selection.where = UNDEF /\ selection.f = <<>>
  /\ selection.deepAll.where = PAnd(NoProps, f :> PAnd("EQ" :> NULL, NoProps))

\* below node, every record the traversal reaches that lacks f is matched
\* where it is: res holds, at its place, what the pattern selects from it
\* (a sequence keeps what it collects in order but not at the same index);
\* the traversal goes on below a record only when the record has f
RECURSIVE MatchedWhereLacking(_, _, _)
MatchedWhereLacking(node, res, f) ==
  \A key \in DOMAIN node.p :
    (IsTree(node.p[key]) /\ ~node.p[key].arr) =>
      IF f \notin DOMAIN node.p[key].p
      THEN IF node.arr
           THEN select(node.p[key], selection.deepAll) # UNDEF =>
                  /\ IsTree(res)
                  /\ \E at \in DOMAIN res.p :
                       SameValue(res.p[at], select(node.p[key], selection.deepAll))
           ELSE SameValue(IF IsTree(res) THEN At(res, key) ELSE UNDEF,
                          select(node.p[key], selection.deepAll))
      ELSE (~node.arr /\ ~IsNullish(node.p[key].p[f])) =>
             MatchedWhereLacking(node.p[key],
                                 IF IsTree(res) THEN At(res, key) ELSE UNDEF, f)

\* C24: with a DEEP_ALL pattern whose WHERE is { f: { EQ: null } }, a record
\* the traversal reaches that lacks f satisfies the WHERE and is the match:
\* an ancestor without f is matched, not its descendant whose f is null
FuzzyMatch ==
  \A f \in {"x", "y"} :
    DeepWhereNull(f) => MatchedWhereLacking(source, result, f)

\* select({ a: { x: 1, b: { x: 2, y: null } } },
\*        { [DEEP_ALL]: { [WHERE]: { y: { [EQ]: null } }, x: true } })
\* has returned { a: { x: 1 } }
FuzzyMatchWitness ==
  /\ DeepWhereNull("y")
  /\ source = Obj(<<<<"a", Obj(<<<<"x", Num(1)>>, <<"b", XY(Num(2), NULL)>>>>)>>>>)
  /\ IsTree(result) /\ DOMAIN result.p = {"a"}
  /\ IsTree(result.p["a"]) /\ DOMAIN result.p["a"].p = {"x"}
  /\ result.p["a"].p["x"] = Num(1)

\* every symbol key of the statement, at every level, is an operator token
RECURSIVE KnownSymbols(_)
KnownSymbols(statement) ==
  CASE statement.t = "jobj" ->
         \A key \in DOMAIN statement.p :
           Kept(key) /\ KnownSymbols(statement.p[key])
    [] statement.t = "jarr" ->
         \A i \in 1..Len(statement.e) : KnownSymbols(statement.e[i])
    [] OTHER -> TRUE

\* C25: serialization round trip: for a statement without functions whose
\* symbol keys are operator tokens, fromJSON(toJSON(s)) equals s
JsonRoundTrip ==
  (jphase = "restored" /\ KnownSymbols(original)) => restored = original


\* the key the single field directive of a statement addresses
OnlyKey(s) == s.f[1].key

\* the ChangeRecord holds nested changes under a key: a nested record, the
\* key itself having no META entry
HasNestedChanges(h, record, key) ==
  /\ IsRef(record) /\ IsRef(Get(h, record, key))
  /\ ~(h[record.v].hm /\ key \in DOMAIN h[record.v].m)

\* C26: when a threaded update replaces, deletes or overwrites with a scalar
\* a key whose value is a record or sequence with nested changes recorded
\* under that key, the META original recorded for the key equals the value
\* the key had before any tracked mutation
NestedUndoneFirst ==
  [][(/\ nupd' = nupd + 1 /\ err' = ""
      /\ stmt' \in OverwriteStatements
      /\ IsRef(Get(heap, data, OnlyKey(stmt')))
      /\ HasNestedChanges(heap, changes, OnlyKey(stmt')))
     => LET record == Snap(heap', changes')
        IN /\ record.hm /\ OnlyKey(stmt') \in DOMAIN record.m
           /\ SameValue(record.m[OnlyKey(stmt')], At(d0, OnlyKey(stmt')))]_vars


\* the ChangeRecord represents every key, at every level, whose value in the
\* tree after differs from its value in the tree before: the key has a META
\* entry, or holds a nested ChangeRecord that represents the differences
\* below it
RECURSIVE Represents(_, _, _)
Represents(record, before, after) ==
  /\ IsTree(record) /\ IsTree(before) /\ IsTree(after)
  /\ \A key \in (DOMAIN before.p) \cup (DOMAIN after.p) :
       SameValue(At(before, key), At(after, key))
       \/ (record.hm /\ key \in DOMAIN record.m)
       \/ (key \in DOMAIN record.p
           /\ Represents(record.p[key], At(before, key), At(after, key)))

\* C27: ChangeRecord completeness: after update(d, s) returns c, every key
\* of d, at every level, whose value differs from its value before the call
\* is represented in c, and for every key that has a META entry the new
\* value recorded in c equals the key's current value in d
RecordComplete ==
  phase = "updated" =>
    /\ SameValue(pre, Snap(heap, data))
       \/ Represents(Snap(heap, changes), pre, Snap(heap, data))
    /\ NewValuesAre(Snap(heap, changes), Snap(heap, data))

\* an update that changed a key below a top-level key and returned a record
\* that holds a nested ChangeRecord for it
RecordCompleteWitness ==
  /\ phase = "updated" /\ changes # UNDEF
  /\ LET record == Snap(heap, changes)
         now == Snap(heap, data)
     IN \E key \in DOMAIN record.p :
          /\ ~(record.hm /\ key \in DOMAIN record.m)
          /\ IsTree(record.p[key]) /\ record.p[key].hm
          /\ ~SameValue(At(pre, key), At(now, key))
          /\ \E other \in DOMAIN record.p :
               /\ record.hm /\ other \in DOMAIN record.m
               /\ ~SameValue(At(pre, other), At(now, other))


\* two snapshots have the same keys in every record and the same length in
\* every sequence, at every level
RECURSIVE SameKeys(_, _)
SameKeys(a, b) ==
  IF IsTree(a) /\ IsTree(b)
  THEN /\ a.arr = b.arr
       /\ a.len = b.len
       /\ DOMAIN a.p = DOMAIN b.p
       /\ \A k \in DOMAIN a.p : SameKeys(a.p[k], b.p[k])
  ELSE IsTree(a) = IsTree(b)

\* C28: after update(d, s) followed by undo(d, c), the set of keys present in
\* every record of d and the length of every sequence of d are the same as
\* before the update: a key or index the update added is removed again
UndoRemovesAdded ==
  phase = "undone" => SameKeys(Snap(heap, data), pre)


\* no record or sequence of a tree carries a META entry
RECURSIVE NoMeta(_)
NoMeta(tree) ==
  IsTree(tree) => (~tree.hm /\ \A k \in DOMAIN tree.p : NoMeta(tree.p[k]))

\* C29: for any sequence of updates threading one ChangeRecord the engine
\* never writes change-tracking data into the live data tree: no record of
\* the data tree ever acquires a META entry
DataHoldsNoMeta == NoMeta(Snap(heap, data))


\* C30: hasChanges(c, detector) returns a boolean and never raises, for every
\* ChangeRecord c produced by update and every detector built from anyChange,
\* typeChange, nested detectors and ALL
DetectReturnsBoolean == detected \in {"none", "true", "false"}

====
